---- MODULE Spec2Model ----
(***************************************************************************)
(* A model of muse: the catalogue (db.rs), the behaviour tracker           *)
(* (daemon.rs), the tracking commands (mpd_client.rs) and the queue        *)
(* strategies (queue.rs).  Time is counted in whole seconds, the unit of   *)
(* `mpc status`.                                                           *)
(***************************************************************************)
EXTENDS Integers, Sequences, FiniteSets, TLC

\* ------------------------------------------------------------------ bounds
MaxId == 3          \* largest song rowid the catalogue may hand out
MaxOps == 3         \* tracker events, commands and scans in one behaviour
MaxAge == 6         \* seconds a tracked state is followed after its start_time
MaxCalls == 3       \* calls of update_connection in one behaviour of SpecEdges
MaxCmdOps == 2      \* operations in one behaviour with the foreground commands
MaxPlayed == 200    \* largest play time drawn for the classification rule

\* ------------------------------------------------------- program constants
ListenRatioNum == 8         \* play_ratio > 0.8, as 8/10
ListenRatioDen == 10
MinListenSecs == 30         \* play_duration.as_secs() >= 30
TouchAfterSecs == 3         \* elapsed > 3.0

\* ------------------------------------------------------------ option types
None == [some |-> FALSE]
Some(v) == [some |-> TRUE, v |-> v]

\* ------------------------------------------------------------------- paths
MusicDir == "music"
RelPaths == {"a", "b", "c"}
VolumeLine == "volume"      \* first line of `mpc status` when nothing plays
AbsPaths == {<<MusicDir, r>> : r \in RelPaths}

\* Duration in seconds the player reports for a file.
SongSecs == 5

VARIABLES
    songs,          \* songs table: id -> row
    connections,    \* connections table: set of rows
    foreign_keys,   \* whether the linked SQLite enforces FOREIGN KEY clauses
    status_format,  \* the status line format of the installed player CLI
    current_state,  \* BehaviorDaemon.current_state
    age,            \* seconds since current_state.start_time
    running,        \* the tracker process is in its event loop
    budget,         \* operations a behaviour may hold (MaxOps or MaxCmdOps)
    arg, res,       \* the input drawn for a function under study, its result
    nops,           \* operations performed so far
    idPaths,        \* history: every path each rowid was ever given
    nEp,            \* history: PlayingStates created so far
    finalCount,     \* history: handle_song_ended applications per PlayingState
    epTouches,      \* history: tracker touches per PlayingState
    last            \* history: the last operation and what it did

vars == <<songs, connections, foreign_keys, status_format, current_state, age,
          running, budget, arg, res, nops, idPaths, nEp, finalCount, epTouches, last>>

\* What the build and the installation fix for a whole run.
Config == <<foreign_keys, status_format, budget, arg, res>>

\* ================================================================ catalogue
\* A songs row as INSERT INTO songs (path, ...) leaves it: counters default 0.
NewSong(path) ==
    [path |-> path, touches |-> 0, listens |-> 0, skips |-> 0, loved |-> FALSE]

Max(S) == CHOOSE x \in S : \A y \in S : y <= x

\* The rowid SQLite gives a new row of a table declared INTEGER PRIMARY KEY
\* (without AUTOINCREMENT): one more than the largest rowid in the table.
NextRowId(ids) == IF ids = {} THEN 1 ELSE Max(ids) + 1

\* SELECT id FROM songs WHERE path = ?1
SongIdByPath(sgs, path) ==
    IF \E i \in DOMAIN sgs : sgs[i].path = path
    THEN Some(CHOOSE i \in DOMAIN sgs : sgs[i].path = path)
    ELSE None

\* A counter update that adds to listens and to skips alike.
update_song_stats_Both(sgs, song_id, touched, listened, skipped) ==
    IF song_id \in DOMAIN sgs
    THEN [sgs EXCEPT ![song_id] =
            [@ EXCEPT !.touches = @ + (IF touched THEN 1 ELSE 0),
                      !.listens = @ + (IF listened \/ skipped THEN 1 ELSE 0),
                      !.skips = @ + (IF listened \/ skipped THEN 1 ELSE 0)]]
    ELSE sgs

\* db::update_song_stats: one UPDATE ... WHERE id = ?1; no row, no change.
update_song_stats(sgs, song_id, touched, listened, skipped) ==
    IF song_id \in DOMAIN sgs
    THEN [sgs EXCEPT ![song_id] =
            [@ EXCEPT !.touches = @ + (IF touched THEN 1 ELSE 0),
                      !.listens = @ + (IF listened THEN 1 ELSE 0),
                      !.skips = @ + (IF skipped THEN 1 ELSE 0)]]
    ELSE sgs

\* FOREIGN KEY (from_song_id), (to_song_id) REFERENCES songs (id)
ForeignKeyOk(sgs, fk, from_id, to_id) ==
    fk => (from_id \in DOMAIN sgs /\ to_id \in DOMAIN sgs)

\* An edge update that inserts a row whatever the table holds.
update_connection_AlwaysInserts(conns, from_id, to_id) ==
    conns \cup {[id |-> NextRowId({r.id : r \in conns}),
                 from_song_id |-> from_id, to_song_id |-> to_id, count |-> 1]}

\* db::update_connection: INSERT ... ON CONFLICT(from_song_id, to_song_id)
\* DO UPDATE SET count = count + 1.
update_connection(conns, from_id, to_id) ==
    IF \E r \in conns : r.from_song_id = from_id /\ r.to_song_id = to_id
    THEN {IF r.from_song_id = from_id /\ r.to_song_id = to_id
          THEN [r EXCEPT !.count = @ + 1] ELSE r : r \in conns}
    ELSE conns \cup {[id |-> NextRowId({r.id : r \in conns}),
                      from_song_id |-> from_id, to_song_id |-> to_id,
                      count |-> 1]}

\* The loop of db::update_database over the scanned files: a file whose path
\* is not yet in the table is inserted, in scan order.
RECURSIVE InsertScanned(_, _)
InsertScanned(sgs, files) ==
    IF files = <<>> THEN sgs
    ELSE LET f == Head(files)
             known == \E i \in DOMAIN sgs : sgs[i].path = f
             id == NextRowId(DOMAIN sgs)
         IN InsertScanned(
                IF known THEN sgs
                ELSE [i \in DOMAIN sgs \cup {id} |->
                        IF i = id THEN NewSong(f) ELSE sgs[i]],
                Tail(files))

\* Rows of existing_songs (read before the scan) whose path was not seen.
MissingIds(sgs, files) ==
    {i \in DOMAIN sgs : \A k \in 1..Len(files) : files[k] # sgs[i].path}

\* =================================================================== player
\* One `mpc status -f %file%` line is a sequence of whitespace-separated
\* tokens.  A token is a word or two parts joined by "/"; a part is either
\* "M:SS" or a text without a colon ("#5", "20").
Word(w) == [kind |-> "word", text |-> w]
Pair(l, r) == [kind |-> "pair", left |-> l, right |-> r]
Clock(t) == [colon |-> TRUE, min |-> t \div 60, sec |-> t % 60]
Plain == [colon |-> FALSE]

\* The status line comes from the player CLI, which is not part of this
\* program: "position" is mpc's `[playing] #5/20   1:23/3:45 (37%)`, "bare" a
\* CLI that prints no queue position before the times.
StatusFormats == {"position", "bare"}

\* What the CLI prints for a player in state st on file cur at position el.
MpcStatusOutput(st, cur, el, fmt) ==
    IF st = "stop"
    THEN << [text |-> VolumeLine, tokens |-> <<Word(VolumeLine)>>] >>
    ELSE << [text |-> cur, tokens |-> <<Word(cur)>>],
            [text |-> "status",
             tokens |-> << Word(IF st = "play" THEN "[playing]" ELSE "[paused]") >>
                        \o (IF fmt = "position" THEN << Pair(Plain, Plain) >> ELSE << >>)
                        \o << Pair(Clock(el), Clock(SongSecs)), Word("(37%)") >>],
            [text |-> VolumeLine, tokens |-> <<Word(VolumeLine)>>] >>

\* mpd_client::parse_time: "M:SS" -> minutes * 60 + seconds, else an error.
parse_time(part) == IF part.colon THEN Some(part.min * 60 + part.sec) ELSE None

\* line.contains(word)
LineContains(line, w) ==
    \E k \in 1..Len(line.tokens) :
        line.tokens[k].kind = "word" /\ line.tokens[k].text = w

\* line.split_whitespace().find(|s| s.contains("/"))
FirstSlashToken(line) ==
    LET ks == {k \in 1..Len(line.tokens) : line.tokens[k].kind = "pair"}
    IN IF ks = {} THEN None
       ELSE Some(line.tokens[CHOOSE k \in ks : \A j \in ks : k <= j])

\* The loop of get_mpd_status over lines.iter().skip(1), from line k on,
\* carrying the status parsed so far.
RECURSIVE ParseStatusLines(_, _, _)
ParseStatusLines(lines, k, acc) ==
    IF k > Len(lines) THEN acc
    ELSE LET line == lines[k]
             st == IF LineContains(line, "[playing]") THEN "play"
                   ELSE IF LineContains(line, "[paused]") THEN "pause"
                   ELSE acc.state
             tok == FirstSlashToken(line)
             el == IF tok.some /\ parse_time(tok.v.left).some
                   THEN parse_time(tok.v.left).v ELSE acc.elapsed
             du == IF tok.some /\ parse_time(tok.v.right).some
                   THEN parse_time(tok.v.right) ELSE acc.duration
         IN ParseStatusLines(lines, k + 1,
                [acc EXCEPT !.state = st, !.elapsed = el, !.duration = du])

\* mpd_client::get_mpd_status on the CLI's output.
get_mpd_status(lines) ==
    ParseStatusLines(lines, 2,
        [current_song |-> IF Len(lines) > 0 /\ lines[1].text # ""
                          THEN Some(lines[1].text) ELSE None,
         elapsed |-> 0, duration |-> None, state |-> "stop"])

\* ========================================================= path translation
\* path_translator::mpd_relative_to_absolute: music_dir.join(relative_path);
\* an empty relative path is an error.
mpd_relative_to_absolute(rel) ==
    IF rel = "" THEN None ELSE Some(<<MusicDir, rel>>)

\* ================================================================== tracker
\* What may go wrong inside one handler run: the named call fails whenever
\* the handler makes it.  "query" stands for get_connection or query_row,
\* "stats" for update_song_stats, "conn" for update_connection, "path" for
\* mpd_relative_to_absolute, "status" for get_mpd_status.
Faults == {"none", "status", "path", "query", "stats", "conn"}

\* A decision that takes 80% played for a listen.
WasListened_AtLeast(played, duration) ==
    IF duration.some
    THEN played * ListenRatioDen >= duration.v * ListenRatioNum
    ELSE played >= MinListenSecs

\* daemon.rs, handle_song_ended: the listen/skip decision.
WasListened(played, duration) ==
    IF duration.some
    THEN played * ListenRatioDen > duration.v * ListenRatioNum
    ELSE played >= MinListenSecs

\* A finalization that records the transition before it counts the listen.
handle_song_ended_EdgeFirst(st, played, next, sgs, conns, fk, fault) ==
    LET was_listened == WasListened(played, st.duration)
        song_info == fault # "query" /\ st.song_id \in DOMAIN sgs
        sgs1 == update_song_stats(sgs, st.song_id, FALSE, was_listened, ~was_listened)
        next_absolute == IF next.some /\ fault # "path"
                         THEN mpd_relative_to_absolute(next.v) ELSE None
        next_id == IF next_absolute.some
                   THEN SongIdByPath(sgs, next_absolute.v) ELSE None
        r0 == [ok |-> FALSE, songs |-> sgs, conns |-> conns, bumped |-> FALSE,
               listened |-> was_listened, edge |-> None]
    IN  IF ~song_info THEN r0
        ELSE IF was_listened /\ next_id.some
        THEN IF fault = "conn" \/ ~ForeignKeyOk(sgs, fk, st.song_id, next_id.v)
             THEN r0
             ELSE IF fault = "stats"
             THEN [r0 EXCEPT !.conns = update_connection(conns, st.song_id, next_id.v),
                             !.edge = Some(<<st.song_id, next_id.v>>)]
             ELSE [r0 EXCEPT !.ok = TRUE, !.songs = sgs1, !.bumped = TRUE,
                             !.conns = update_connection(conns, st.song_id, next_id.v),
                             !.edge = Some(<<st.song_id, next_id.v>>)]
        ELSE IF fault = "stats" THEN r0
        ELSE [r0 EXCEPT !.ok = TRUE, !.songs = sgs1, !.bumped = TRUE]

\* A finalization that records the transition whether or not the song was
\* listened to.
handle_song_ended_EdgeAlways(st, played, next, sgs, conns, fk, fault) ==
    LET was_listened == WasListened(played, st.duration)
        song_info == fault # "query" /\ st.song_id \in DOMAIN sgs
        sgs1 == update_song_stats(sgs, st.song_id, FALSE, was_listened, ~was_listened)
        next_absolute == IF next.some /\ fault # "path"
                         THEN mpd_relative_to_absolute(next.v) ELSE None
        next_id == IF next_absolute.some
                   THEN SongIdByPath(sgs1, next_absolute.v) ELSE None
        r0 == [ok |-> FALSE, songs |-> sgs, conns |-> conns, bumped |-> FALSE,
               listened |-> was_listened, edge |-> None]
    IN  IF ~song_info \/ fault = "stats" THEN r0
        ELSE IF next_id.some
        THEN IF fault = "conn" \/ ~ForeignKeyOk(sgs1, fk, st.song_id, next_id.v)
             THEN [r0 EXCEPT !.songs = sgs1, !.bumped = TRUE]
             ELSE [r0 EXCEPT !.ok = TRUE, !.songs = sgs1, !.bumped = TRUE,
                             !.conns = update_connection(conns, st.song_id, next_id.v),
                             !.edge = Some(<<st.song_id, next_id.v>>)]
        ELSE [r0 EXCEPT !.ok = TRUE, !.songs = sgs1, !.bumped = TRUE]

\* BehaviorDaemon::handle_song_ended(state, next_mpd_path), `played` being
\* state.start_time.elapsed().  bumped: the listen or skip was committed.
handle_song_ended(st, played, next, sgs, conns, fk, fault) ==
    LET was_listened == WasListened(played, st.duration)
        song_info == fault # "query" /\ st.song_id \in DOMAIN sgs
        sgs1 == update_song_stats(sgs, st.song_id, FALSE, was_listened, ~was_listened)
        next_absolute == IF next.some /\ fault # "path"
                         THEN mpd_relative_to_absolute(next.v) ELSE None
        next_id == IF next_absolute.some
                   THEN SongIdByPath(sgs1, next_absolute.v) ELSE None
        r0 == [ok |-> FALSE, songs |-> sgs, conns |-> conns, bumped |-> FALSE,
               listened |-> was_listened, edge |-> None]
    IN  IF ~song_info \/ fault = "stats" THEN r0
        ELSE IF was_listened /\ next_id.some
        THEN IF fault = "conn" \/ ~ForeignKeyOk(sgs1, fk, st.song_id, next_id.v)
             THEN [r0 EXCEPT !.songs = sgs1, !.bumped = TRUE]
             ELSE [r0 EXCEPT !.ok = TRUE, !.songs = sgs1, !.bumped = TRUE,
                             !.conns = update_connection(conns, st.song_id, next_id.v),
                             !.edge = Some(<<st.song_id, next_id.v>>)]
        ELSE [r0 EXCEPT !.ok = TRUE, !.songs = sgs1, !.bumped = TRUE]

\* BehaviorDaemon::start_tracking_song: the new PlayingState, or an error.
\* Its start_time is Instant::now().
start_tracking_song(mpd_path, duration, sgs, fault) ==
    LET absolute_path == IF fault = "path" THEN None
                         ELSE mpd_relative_to_absolute(mpd_path)
        song_id == IF absolute_path.some /\ fault # "query"
                   THEN SongIdByPath(sgs, absolute_path.v) ELSE None
    IN  IF song_id.some
        THEN Some([mpd_path |-> mpd_path, song_id |-> song_id.v,
                   duration |-> duration, touches_tracked |-> FALSE])
        ELSE None

\* A tracker that forgets it has counted the touch.
MarkTouched_Forgets(st) == st

\* state.touches_tracked = true
MarkTouched(st) == [st EXCEPT !.touches_tracked = TRUE]

\* The result of a handler run that changed nothing.
Outcome(ok, sgs, conns, cs, played) ==
    [ok |-> ok, songs |-> sgs, conns |-> conns, state |-> cs, age |-> played,
     final |-> None, touched |-> FALSE, created |-> FALSE]

\* What a handle_song_ended run on state st adds to an outcome.
Finalized(out, st, e) ==
    [out EXCEPT !.songs = e.songs, !.conns = e.conns,
                !.final = Some([song_id |-> st.song_id, listened |-> e.listened,
                                bumped |-> e.bumped, ok |-> e.ok, edge |-> e.edge])]

\* BehaviorDaemon::handle_playing_song(mpd_path, elapsed, duration).
handle_playing_song(cs, played, mpd_path, elapsed, duration, sgs, conns, fk, fault) ==
    LET is_new_song == IF cs.some THEN cs.v.mpd_path # mpd_path ELSE TRUE
        base == Outcome(FALSE, sgs, conns, cs, played)
    IN  IF is_new_song
        THEN LET e == IF cs.some
                      THEN handle_song_ended(cs.v, played, Some(mpd_path), sgs, conns, fk, fault)
                      ELSE [ok |-> TRUE, songs |-> sgs, conns |-> conns,
                            bumped |-> FALSE, listened |-> FALSE, edge |-> None]
                 ended == IF cs.some THEN Finalized(base, cs.v, e) ELSE base
                 started == start_tracking_song(mpd_path, duration, e.songs, fault)
             IN  IF ~e.ok THEN ended
                 ELSE IF ~started.some THEN ended
                 ELSE [ended EXCEPT !.ok = TRUE, !.state = started, !.age = 0,
                                    !.created = TRUE]
        ELSE IF ~cs.v.touches_tracked /\ elapsed > TouchAfterSecs
        THEN IF fault \in {"query", "stats"} \/ cs.v.song_id \notin DOMAIN sgs
             THEN base
             ELSE [base EXCEPT !.ok = TRUE,
                               !.songs = update_song_stats(sgs, cs.v.song_id, TRUE, FALSE, FALSE),
                               !.state = Some(MarkTouched(cs.v)),
                               !.touched = TRUE]
        ELSE [base EXCEPT !.ok = TRUE]

\* BehaviorDaemon::handle_player_event on the status `mpc status` printed.
handle_player_event(cs, played, lines, sgs, conns, fk, fault) ==
    LET status == get_mpd_status(lines)
        base == Outcome(FALSE, sgs, conns, cs, played)
    IN  IF fault = "status" THEN base
        ELSE IF status.state = "play"
        THEN IF status.current_song.some
             THEN handle_playing_song(cs, played, status.current_song.v,
                                      status.elapsed, status.duration,
                                      sgs, conns, fk, fault)
             ELSE [base EXCEPT !.ok = TRUE]
        ELSE IF status.state = "pause" THEN [base EXCEPT !.ok = TRUE]
        ELSE \* "stop"
             IF cs.some
             THEN LET e == handle_song_ended(cs.v, played, None, sgs, conns, fk, fault)
                      ended == Finalized(base, cs.v, e)
                  IN  IF ~e.ok THEN ended
                      ELSE [ended EXCEPT !.ok = TRUE, !.state = None, !.age = 0]
             ELSE [base EXCEPT !.ok = TRUE]

\* BehaviorDaemon::sync_current_state, run once by start_monitoring.
sync_current_state(lines, sgs, conns, fault) ==
    LET status == get_mpd_status(lines)
        base == Outcome(FALSE, sgs, conns, None, 0)
        started == start_tracking_song(status.current_song.v, status.duration, sgs, fault)
    IN  IF fault = "status" THEN base
        ELSE IF status.state = "play" /\ status.current_song.some
        THEN IF ~started.some THEN base
             ELSE LET at == [base EXCEPT !.state = started, !.created = TRUE,
                                         !.age = status.elapsed]
                  IN  IF status.elapsed > TouchAfterSecs
                      THEN IF fault = "stats" THEN at
                           ELSE [at EXCEPT !.ok = TRUE,
                                    !.songs = update_song_stats(sgs, started.v.song_id, TRUE, FALSE, FALSE),
                                    !.state = Some(MarkTouched(started.v)),
                                    !.touched = TRUE]
                      ELSE [at EXCEPT !.ok = TRUE]
        ELSE [base EXCEPT !.ok = TRUE]

\* ================================================================= commands
\* "mpc": `mpc next` fails; "restatus": the status read after it fails.
CmdFaults == {"none", "mpc", "restatus", "query", "stats", "conn"}

\* mpd_client::handle_song_finished(mpd_current_path, mpd_next_path).
handle_song_finished(cur, next, sgs, conns, fk, fault) ==
    LET current_absolute == IF fault = "path" THEN None ELSE mpd_relative_to_absolute(cur)
        next_absolute == IF fault = "path" THEN None ELSE mpd_relative_to_absolute(next)
        current_id == IF current_absolute.some /\ next_absolute.some /\ fault # "query"
                      THEN SongIdByPath(sgs, current_absolute.v) ELSE None
        next_id == IF current_id.some THEN SongIdByPath(sgs, next_absolute.v) ELSE None
        r0 == [ok |-> FALSE, songs |-> sgs, conns |-> conns, edge |-> None]
    IN  IF ~next_id.some THEN r0
        ELSE IF fault = "conn" \/ ~ForeignKeyOk(sgs, fk, current_id.v, next_id.v) THEN r0
        ELSE LET conns1 == update_connection(conns, current_id.v, next_id.v)
                 r1 == [r0 EXCEPT !.conns = conns1,
                                  !.edge = Some(<<current_id.v, next_id.v>>)]
             IN  IF fault = "stats" THEN r1
                 ELSE [r1 EXCEPT !.ok = TRUE,
                          !.songs = update_song_stats(
                                      update_song_stats(sgs, current_id.v, FALSE, TRUE, FALSE),
                                      next_id.v, TRUE, FALSE, FALSE)]

\* mpd_client::handle_song_skipped(mpd_current_path).
handle_song_skipped(cur, sgs, conns, fault) ==
    LET current_absolute == IF fault = "path" THEN None ELSE mpd_relative_to_absolute(cur)
        song_id == IF current_absolute.some /\ fault # "query"
                   THEN SongIdByPath(sgs, current_absolute.v) ELSE None
        r0 == [ok |-> FALSE, songs |-> sgs, conns |-> conns, edge |-> None]
    IN  IF ~song_id.some \/ fault = "stats" THEN r0
        ELSE [r0 EXCEPT !.ok = TRUE,
                        !.songs = update_song_stats(sgs, song_id.v, FALSE, FALSE, TRUE)]

\* A decision of `next` that takes 80% played for a listen.
WasNaturalListen_AtLeast(status) ==
    IF status.duration.some
    THEN status.elapsed * ListenRatioDen >= status.duration.v * ListenRatioNum
    ELSE FALSE

\* mpd_client::next_with_tracking, the listen/skip decision on the status
\* read before `mpc next`.
WasNaturalListen(status) ==
    IF status.duration.some
    THEN status.elapsed * ListenRatioDen > status.duration.v * ListenRatioNum
    ELSE FALSE

\* The tracking half of next_with_tracking, after `mpc next` succeeded:
\* before is the status read first, after the output of the second read.
next_with_tracking(before, after, sgs, conns, fk, fault) ==
    LET new_status == IF fault = "restatus"
                      THEN [current_song |-> None, elapsed |-> 0,
                            duration |-> None, state |-> "stop"]
                      ELSE get_mpd_status(after)
        next_file == IF new_status.current_song.some
                     THEN new_status.current_song.v ELSE ""
    IN  IF WasNaturalListen(before)
        THEN handle_song_finished(before.current_song.v, next_file, sgs, conns, fk, fault)
        ELSE handle_song_skipped(before.current_song.v, sgs, conns, fault)

\* The tracking half of skip_with_tracking, after `mpc next` succeeded.
\* A skip command that counts a listen once 80% has played.
skip_with_tracking_ByRatio(before, sgs, conns, fault) ==
    LET r == handle_song_skipped(before.current_song.v, sgs, conns, fault)
        id == SongIdByPath(sgs, <<MusicDir, before.current_song.v>>)
    IN  IF r.ok /\ WasNaturalListen(before)
        THEN [r EXCEPT !.songs = update_song_stats(sgs, id.v, FALSE, TRUE, FALSE)]
        ELSE r

skip_with_tracking(before, sgs, conns, fault) ==
    handle_song_skipped(before.current_song.v, sgs, conns, fault)

\* ================================================================== actions
Min(a, b) == IF a < b THEN a ELSE b

NoLast == [n |-> 0, op |-> "init", ok |-> TRUE, again |-> FALSE, final |-> None,
           touched |-> FALSE, cmd |-> None, edge |-> None, ep |-> 0]

\* The songs table after `init-db` found a and b, beside either player CLI.
InitSongs ==
    /\ songs = [i \in {1, 2} |-> NewSong(<<MusicDir, IF i = 1 THEN "a" ELSE "b">>)]
    /\ status_format \in StatusFormats
    /\ idPaths = [i \in 1..MaxId |-> IF i \in {1, 2} THEN {songs[i].path} ELSE {}]

\* The catalogue after `init-db`: nothing has played yet.
InitCatalogue ==
    /\ InitSongs
    /\ connections = {}

\* The build enforces foreign keys or it does not.
AnyBuild == foreign_keys \in BOOLEAN

\* A build that does not.  Where every handler runs as one step, each id it
\* writes was read from the songs table in that step and enforcement has
\* nothing to reject.
PlainBuild == foreign_keys = FALSE

InitTracker ==
    /\ current_state = None
    /\ age = 0
    /\ running = FALSE
    /\ nEp = 0
    /\ finalCount = << >>
    /\ epTouches = << >>

Init ==
    /\ InitCatalogue
    /\ PlainBuild
    /\ InitTracker
    /\ budget = MaxOps
    /\ arg = None /\ res = None
    /\ nops = 0
    /\ last = NoLast

UnchangedCatalogue == UNCHANGED <<songs, connections, Config, idPaths>>
UnchangedTracker == UNCHANGED <<current_state, age, running, nEp, finalCount, epTouches>>

\* One second passes on the wall clock since the tracked state's start_time,
\* while an operation that may read the clock is still to come.
Tick ==
    /\ current_state.some /\ age < MaxAge /\ nops < budget
    /\ age' = age + 1
    /\ UNCHANGED <<songs, connections, Config, current_state, running, nops,
                   idPaths, nEp, finalCount, epTouches, last>>

\* The same clock in steps of a song's length.
TickSong ==
    /\ current_state.some /\ age < MaxAge /\ nops < budget
    /\ age' = Min(age + SongSecs, MaxAge)
    /\ UNCHANGED <<songs, connections, Config, current_state, running, nops,
                   idPaths, nEp, finalCount, epTouches, last>>

\* The player as `mpc status` finds it: its state, its current file and the
\* position in it.  Positions at 3 s and either side of it, and either side
\* of 80% of the song.
Positions == {0, TouchAfterSecs, TouchAfterSecs + 1, SongSecs}
Playing == [state : {"play"}, cur : RelPaths, elapsed : Positions]
Players ==
    Playing \cup {[state |-> "pause", cur |-> "a", elapsed |-> TouchAfterSecs + 1],
                  [state |-> "stop", cur |-> "", elapsed |-> 0]}

StatusOutput(pl) == MpcStatusOutput(pl.state, pl.cur, pl.elapsed, status_format)

\* The status is a Play of the file of the held state, more than 3 s into it.
PlayAgain(status) ==
    /\ status.some /\ status.v.state = "play"
    /\ status.v.elapsed > TouchAfterSecs
    /\ current_state.some
    /\ status.v.current_song = Some(current_state.v.mpd_path)

\* The history of one tracker handler run that read status and had outcome
\* out: episodes (PlayingStates) are numbered as they are created.
TrackHistory(out, op, status) ==
    LET ep == IF current_state.some THEN current_state.v.ep ELSE 0
        newEp == IF out.created THEN nEp + 1 ELSE nEp
    IN  /\ nEp' = newEp
        /\ finalCount' =
             LET fc == IF out.final.some /\ out.final.v.bumped
                       THEN [finalCount EXCEPT ![ep] = @ + 1]
                       ELSE finalCount
             IN IF out.created THEN Append(fc, 0) ELSE fc
        /\ epTouches' =
             LET et == IF out.created THEN Append(epTouches, 0) ELSE epTouches
                 tep == IF out.created THEN newEp ELSE ep
             IN IF out.touched THEN [et EXCEPT ![tep] = @ + 1] ELSE et
        /\ current_state' =
             IF out.state.some
             THEN Some([mpd_path |-> out.state.v.mpd_path,
                        song_id |-> out.state.v.song_id,
                        duration |-> out.state.v.duration,
                        touches_tracked |-> out.state.v.touches_tracked,
                        ep |-> IF out.created THEN newEp ELSE ep])
             ELSE None
        /\ age' = IF out.state.some THEN Min(out.age, MaxAge) ELSE 0
        /\ songs' = out.songs
        /\ connections' = out.conns
        /\ last' = [n |-> nops', op |-> op, ok |-> out.ok, again |-> PlayAgain(status),
                    final |-> out.final, touched |-> out.touched, cmd |-> None,
                    edge |-> IF out.final.some THEN out.final.v.edge ELSE None,
                    ep |-> ep]

\* BehaviorDaemon::start_monitoring up to its event loop, the player being
\* pl; an error of sync_current_state ends the process.
TrackerStart(pl, fault) ==
    /\ ~running /\ last.op = "init"
    /\ \E out \in {sync_current_state(StatusOutput(pl), songs, connections, fault)} :
          /\ running' = out.ok
          /\ nops' = nops
          /\ TrackHistory(IF out.ok THEN out
                          ELSE [out EXCEPT !.state = None, !.created = FALSE],
                          "start",
                          IF fault = "status" THEN None
                          ELSE Some(get_mpd_status(StatusOutput(pl))))
    /\ UNCHANGED <<Config, idPaths>>

\* wait_for_events reads "player" from `mpc idle player` and runs
\* handle_player_event, the player being pl.
TrackerEvent(pl, fault) ==
    /\ running /\ nops < budget
    /\ nops' = nops + 1
    /\ \E out \in {handle_player_event(current_state, age, StatusOutput(pl),
                                       songs, connections, foreign_keys, fault)} :
          TrackHistory(out, "event",
                       IF fault = "status" THEN None
                       ELSE Some(get_mpd_status(StatusOutput(pl))))
    /\ UNCHANGED <<Config, idPaths, running>>

\* `mpc next` on player pl: it moves on to file nxt, or stops at the end of
\* the queue (nxt = ""); a stopped player stays stopped.
AfterMpcNext(pl, nxt) ==
    IF pl.state = "stop" \/ nxt = ""
    THEN [state |-> "stop", cur |-> "", elapsed |-> 0]
    ELSE [state |-> pl.state, cur |-> nxt, elapsed |-> 0]

\* `muse next` (next_with_tracking) or `muse skip` (skip_with_tracking), run
\* by the foreground process on player pl: status, `mpc next`, the tracking.
Command(op, pl, nxt, fault) ==
    /\ nops < budget
    /\ \E before \in {get_mpd_status(StatusOutput(pl))} :
       \E moved \in {fault # "status" /\ (before.current_song.some => fault # "mpc")} :
       \E r \in {IF ~moved \/ ~before.current_song.some
                 THEN [ok |-> moved, songs |-> songs, conns |-> connections,
                       edge |-> None]
                 ELSE IF op = "next"
                 THEN next_with_tracking(before, StatusOutput(AfterMpcNext(pl, nxt)),
                                         songs, connections, foreign_keys, fault)
                 ELSE skip_with_tracking(before, songs, connections, fault)} :
          /\ songs' = r.songs
          /\ connections' = r.conns
          /\ last' = [n |-> nops + 1, op |-> op, ok |-> r.ok, again |-> FALSE,
                      final |-> None, touched |-> FALSE,
                      cmd |-> Some([file |-> before.current_song,
                                    listened |-> op = "next" /\ WasNaturalListen(before),
                                    moved |-> moved]),
                      edge |-> r.edge, ep |-> 0]
    /\ nops' = nops + 1
    /\ UnchangedTracker /\ UNCHANGED <<Config, idPaths>>

CmdNext(pl, nxt, fault) == Command("next", pl, nxt, fault)

CmdSkip(pl, fault) == Command("skip", pl, "", fault)

\* The files `mpc next` may move player pl on to.  next_with_tracking looks at
\* the file only after a natural listen; otherwise one stands for all.
NextFiles(pl) ==
    IF \E before \in {get_mpd_status(StatusOutput(pl))} : WasNaturalListen(before)
    THEN RelPaths \cup {""} ELSE {""}

\* Sequences of distinct files a scan of the music directory may return.
Scans ==
    {<< >>} \cup {<<x>> : x \in AbsPaths}
    \cup {<<q[1], q[2]>> : q \in {q \in AbsPaths \X AbsPaths : q[1] # q[2]}}
    \cup {q \in AbsPaths \X AbsPaths \X AbsPaths :
            q[1] # q[2] /\ q[1] # q[3] /\ q[2] # q[3]}

\* db::update_database(path, scan_depth, remove_missing) as one committed
\* transaction: the inserts, then the deletes of the rows read before them.
\* A DELETE FROM songs that breaks an enforced foreign key fails the command.
UpdateDatabase(files, remove_missing) ==
    LET added == InsertScanned(songs, files)
        gone == IF remove_missing THEN MissingIds(songs, files) ELSE {}
        referenced == {i \in gone : \E r \in connections :
                                        r.from_song_id = i \/ r.to_song_id = i}
        ok == ~(foreign_keys /\ referenced # {})
        kept == [i \in DOMAIN added \ gone |-> added[i]]
    IN  /\ nops < budget
        /\ DOMAIN added \subseteq 1..MaxId
        /\ songs' = IF ok THEN kept ELSE songs
        /\ connections' = IF ok
                          THEN {r \in connections : r.from_song_id \notin gone
                                                    /\ r.to_song_id \notin gone}
                          ELSE connections
        /\ idPaths' = IF ok
                      THEN [i \in 1..MaxId |->
                              IF i \in DOMAIN added THEN idPaths[i] \cup {added[i].path}
                              ELSE idPaths[i]]
                      ELSE idPaths
        /\ nops' = nops + 1
        /\ last' = [NoLast EXCEPT !.n = nops + 1, !.op = "update", !.ok = ok]
        /\ UnchangedTracker
        /\ UNCHANGED Config

\* The tracker process alone, on whatever the player does.
Next ==
    \/ Tick
    \/ \E pl \in Players, fault \in Faults : TrackerStart(pl, fault)
    \/ \E pl \in Players, fault \in Faults : TrackerEvent(pl, fault)

Spec == Init /\ [][Next]_vars

\* The PlayingState the tracker holds is episode e.
Holds(e) == current_state.some /\ current_state.v.ep = e

\* C1: every PlayingState the tracker has held is finalized exactly once:
\* none has had its listen or skip counted twice, and one the tracker no
\* longer holds has had it counted.
C1_FinalizedExactlyOnce ==
    \A e \in 1..nEp :
        /\ finalCount[e] <= 1
        /\ ~Holds(e) => finalCount[e] = 1

\* The step is a finalization: handle_song_ended ran on the held state and
\* returned Ok or failed only after its counter update.
IsFinalization ==
    /\ last'.n # last.n
    /\ last'.final.some
    /\ last'.final.v.ok \/ last'.final.v.bumped

\* C2: every finalization adds 1 to exactly one of listens and skips of the
\* finalized state's song and changes neither counter of any other song.
C2_ListenSkipPartition ==
    [][IsFinalization =>
         LET id == last'.final.v.song_id
             dl == songs'[id].listens - songs[id].listens
             ds == songs'[id].skips - songs[id].skips
         IN  /\ DOMAIN songs' = DOMAIN songs
             /\ <<dl, ds>> \in {<<1, 0>>, <<0, 1>>}
             /\ \A i \in DOMAIN songs \ {id} :
                    /\ songs'[i].listens = songs[i].listens
                    /\ songs'[i].skips = songs[i].skips]_vars

\* C2's case: a listen and a skip have both been counted by finalizations,
\* the last of which ran while another song had counters of its own.
C2_Witness ==
    /\ last.final.some /\ last.final.v.bumped
    /\ \E i, j \in DOMAIN songs :
          i # j /\ songs[i].listens = 1 /\ songs[i].skips = 0
                /\ songs[j].skips = 1 /\ songs[j].listens = 0

\* C4: within one episode the tracker adds to the song's touches at most once.
C4_TouchesOncePerEpisode == \A e \in 1..nEp : epTouches[e] <= 1

\* C4's case: a Play of the held song, past 3 s, seen by a handler run that
\* succeeded when the episode's touch had been counted already.
C4_Witness ==
    /\ last.op = "event" /\ last.ok /\ last.again /\ ~last.touched
    /\ current_state.some
    /\ last.ep = current_state.v.ep
    /\ epTouches[current_state.v.ep] = 1

\* The tracker process and the foreground commands `muse next` and
\* `muse skip`, MaxCmdOps operations in all, the clock going in steps of a
\* song's length.
InitCmd ==
    /\ InitCatalogue
    /\ PlainBuild
    /\ InitTracker
    /\ budget = MaxCmdOps
    /\ arg = None /\ res = None
    /\ nops = 0
    /\ last = NoLast

NextCmd ==
    \/ TickSong
    \/ \E pl \in Players, fault \in Faults : TrackerStart(pl, fault)
    \/ \E pl \in Players, fault \in Faults : TrackerEvent(pl, fault)
    \/ /\ nops < budget
       /\ \E pl \in Players : \E nxt \in NextFiles(pl) : \E fault \in CmdFaults :
              CmdNext(pl, nxt, fault)
    \/ \E pl \in Players, fault \in CmdFaults : CmdSkip(pl, fault)

SpecCmd == InitCmd /\ [][NextCmd]_vars

\* The step classifies an episode as a skip: a finalization by the tracker,
\* or `muse next` or `muse skip` past `mpc next` with a current song.
IsSkip ==
    /\ last'.n # last.n
    /\ \/ IsFinalization /\ ~last'.final.v.listened
       \/ /\ last'.cmd.some /\ last'.cmd.v.moved /\ last'.cmd.v.file.some
          /\ ~last'.cmd.v.listened

\* C3: a step that classifies an episode as a skip inserts no edge and
\* increments no edge count.
C3_NoEdgeOnSkip == [][IsSkip => connections' = connections]_vars

\* C3's case: `muse skip` has counted a skip of a song that has an edge out
\* of it.
C3_Witness ==
    /\ last.op = "skip" /\ last.ok
    /\ \E i \in DOMAIN songs :
          /\ last.cmd.v.file = Some(songs[i].path[2])
          /\ songs[i].skips = 1
          /\ \E r \in connections : r.from_song_id = i /\ r.count = 1

\* C7: no edge leads from a song to itself.
C7_NoSelfLoop == \A r \in connections : r.from_song_id # r.to_song_id

\* ----------------------------------------------------- the listen/skip rule
\* Durations the player may report for the finalized song, in seconds.
Durations == {None, Some(SongSecs), Some(180)}

\* A PlayingState for song 1 of each duration, finalized after any play time.
InitClassify ==
    /\ InitCatalogue
    /\ PlainBuild
    /\ InitTracker
    /\ budget = 1
    /\ arg \in [played : 0..MaxPlayed, duration : Durations]
    /\ res = None
    /\ nops = 0
    /\ last = NoLast

\* handle_song_ended on that state, at the end of the queue.
Classify ==
    /\ res = None
    /\ \E e \in {handle_song_ended([mpd_path |-> "a", song_id |-> 1,
                                     duration |-> arg.duration,
                                     touches_tracked |-> FALSE],
                                    arg.played, None, songs, connections,
                                    foreign_keys, "none")} :
          /\ res' = Some(e.listened)
          /\ songs' = e.songs
          /\ connections' = e.conns
    /\ UNCHANGED <<foreign_keys, status_format, budget, arg, nops, idPaths, last>>
    /\ UnchangedTracker

NextClassify == Classify

SpecClassify == InitClassify /\ [][NextClassify]_vars

\* The rule as the specification words it.
Listen(played, duration) ==
    \/ duration.some /\ 5 * played > 4 * duration.v
    \/ ~duration.some /\ played >= 30

\* C5: finalization counts a listen iff the duration is known and more than
\* 0.8 of it was played, or it is unknown and at least 30 s were played, and
\* a skip otherwise: 150 s of 180 s is a listen, 60 s and 144 s of 180 s are
\* skips, 45 s of an unknown duration is a listen and 10 s a skip.
C5_ListenRule ==
    res.some =>
        /\ res.v = Listen(arg.played, arg.duration)
        /\ songs[1].listens = (IF res.v THEN 1 ELSE 0)
        /\ songs[1].skips = (IF res.v THEN 0 ELSE 1)
        /\ arg = [played |-> 150, duration |-> Some(180)] => res.v
        /\ arg = [played |-> 60, duration |-> Some(180)] => ~res.v
        /\ arg = [played |-> 144, duration |-> Some(180)] => ~res.v
        /\ arg = [played |-> 45, duration |-> None] => res.v
        /\ arg = [played |-> 10, duration |-> None] => ~res.v

\* C5's case: exactly 144 s of 180 s were played and counted as a skip.
C5_Witness ==
    /\ res = Some(FALSE)
    /\ arg = [played |-> 144, duration |-> Some(180)]
    /\ songs[1].skips = 1

\* ------------------------------------------------------ recording an edge
Pairs == (1..MaxId) \X (1..MaxId)

\* The edge of the pair pr in conns, if any.
EdgeRows(conns, pr) ==
    {r \in conns : r.from_song_id = pr[1] /\ r.to_song_id = pr[2]}

\* An empty connections table, or one that holds the edge (1, 2) already;
\* arg keeps the counts the behaviour starts from, res the calls made.
InitEdges ==
    /\ InitSongs
    /\ AnyBuild
    /\ InitTracker
    /\ connections \in {{}, {[id |-> 1, from_song_id |-> 1, to_song_id |-> 2,
                              count |-> 2]}}
    /\ arg = [pr \in Pairs |-> IF EdgeRows(connections, pr) = {} THEN 0 ELSE 2]
    /\ res = [pr \in Pairs |-> 0]
    /\ budget = MaxCalls
    /\ nops = 0
    /\ last = NoLast

\* One call db::update_connection(from_id, to_id); where foreign keys are
\* enforced the statement fails on an id that is no song.
RecordTransition(from_id, to_id) ==
    /\ nops < budget
    /\ nops' = nops + 1
    /\ IF ForeignKeyOk(songs, foreign_keys, from_id, to_id)
       THEN /\ connections' = update_connection(connections, from_id, to_id)
            /\ res' = [res EXCEPT ![<<from_id, to_id>>] = @ + 1]
       ELSE UNCHANGED <<connections, res>>
    /\ UNCHANGED <<songs, foreign_keys, status_format, budget, arg, idPaths, last>>
    /\ UnchangedTracker

NextEdges == \E from_id, to_id \in 1..MaxId : RecordTransition(from_id, to_id)

SpecEdges == InitEdges /\ [][NextEdges]_vars

\* C6: after k calls of update_connection(a, b) there is exactly one edge
\* row of the pair (a, b) and its count is the count before them plus k;
\* every edge row has a count of at least 1 and no two share their pair.
C6_InsertOrIncrement ==
    /\ \A pr \in Pairs :
          /\ Cardinality(EdgeRows(connections, pr)) <= 1
          /\ res[pr] > 0 =>
                /\ Cardinality(EdgeRows(connections, pr)) = 1
                /\ \A r \in EdgeRows(connections, pr) :
                       r.count = arg[pr] + res[pr] /\ r.count >= res[pr]
    /\ \A r \in connections : r.count >= 1

\* C6's case: a second call for a pair has incremented the row the first
\* call inserted, and a call has incremented the row that was there before.
C6_Witness ==
    /\ \E pr \in Pairs :
          /\ arg[pr] = 0 /\ res[pr] = 2
          /\ \E r \in EdgeRows(connections, pr) : r.count = 2
    /\ \E pr \in Pairs :
          /\ arg[pr] = 2 /\ res[pr] = 1
          /\ \E r \in EdgeRows(connections, pr) : r.count = 3

\* ------------------------------------------ a finalization beside a scan
\* The tracker and `muse update` are two processes on one database file;
\* every statement of handle_song_ended commits on its own, so the scan's
\* transaction may commit between any two of them.
InitRace ==
    /\ InitCatalogue
    /\ AnyBuild
    /\ InitTracker
    /\ budget = MaxOps
    /\ arg = None /\ res = None
    /\ nops = 0
    /\ last = NoLast

\* handle_song_ended of a listened state of song from_id, the player having
\* moved on to another file, up to the query that resolves the id of that
\* file; arg keeps the ids it holds.
EndResolve(from_id, next) ==
    /\ nops < budget /\ arg = None
    /\ from_id \in DOMAIN songs
    /\ mpd_relative_to_absolute(next) # Some(songs[from_id].path)
    /\ nops' = nops + 1
    /\ songs' = update_song_stats(songs, from_id, FALSE, TRUE, FALSE)
    /\ \E next_id \in {SongIdByPath(songs, mpd_relative_to_absolute(next).v)} :
          arg' = IF next_id.some
                 THEN Some([from_id |-> from_id, next_id |-> next_id.v])
                 ELSE None
    /\ UNCHANGED <<connections, foreign_keys, status_format, budget, res,
                   idPaths, last>>
    /\ UnchangedTracker

\* The rest of it: db::update_connection(state.song_id, next_id).
EndRecord ==
    /\ arg # None
    /\ arg' = None
    /\ connections' =
          IF ForeignKeyOk(songs, foreign_keys, arg.v.from_id, arg.v.next_id)
          THEN update_connection(connections, arg.v.from_id, arg.v.next_id)
          ELSE connections
    /\ UNCHANGED <<songs, foreign_keys, status_format, budget, res, nops,
                   idPaths, last>>
    /\ UnchangedTracker

NextRace ==
    \/ \E from_id \in 1..MaxId, next \in RelPaths : EndResolve(from_id, next)
    \/ EndRecord
    \/ \E files \in Scans, remove_missing \in BOOLEAN :
          UpdateDatabase(files, remove_missing)

SpecRace == InitRace /\ [][NextRace]_vars

\* C8: no edge references a song id that is absent from the songs table.
C8_NoDanglingEdge ==
    \A r \in connections :
        r.from_song_id \in DOMAIN songs /\ r.to_song_id \in DOMAIN songs

\* C9: a song id, once assigned to a path, is never assigned to another.
C9_IdNeverReused == \A i \in 1..MaxId : Cardinality(idPaths[i]) <= 1

\* ================================================================== scoring
\* ScoringContext::default().  Scores are kept in thousandths: the model's
\* numbers are integers and log_1.2 is not.
ScoringContext ==
    [touch_threshold |-> 30, love_multiplier |-> 2,
     weights |-> [early_exploration |-> <<4, 1>>, learning_phase |-> <<2, 2>>,
                  stable_preferences |-> <<1, 4>>,
                  small_threshold |-> 5, big_threshold |-> 15]]

Fixed(n) == n * 1000

\* f64::log(n, 1.2) in thousandths, for n = 1..32.
Log12 ==
    <<0, 3802, 6026, 7604, 8827, 9827, 10673, 11405, 12051, 12629, 13152,
      13629, 14068, 14475, 14853, 15207, 15540, 15853, 16150, 16431, 16699,
      16954, 17198, 17431, 17655, 17870, 18077, 18277, 18469, 18655, 18835,
      19009>>

determine_weights_Strict(touches, config) ==
    IF touches < config.small_threshold THEN config.early_exploration
    ELSE IF touches < config.big_threshold THEN config.learning_phase
    ELSE config.stable_preferences

determine_weights(touches, config) ==
    IF touches < config.small_threshold THEN config.early_exploration
    ELSE IF touches <= config.big_threshold THEN config.learning_phase
    ELSE config.stable_preferences

calculate_weighted_score(song, weights) ==
    LET w == determine_weights(song.touches, weights)
    IN  Fixed(w[1] * song.listens - w[2] * song.skips)

calculate_dampened_score(song) ==
    Log12[song.touches + 1] * (song.listens - song.skips)

apply_love_multiplier(score, loved, multiplier) ==
    IF loved THEN score * multiplier ELSE score

\* The memo cache is keyed on the counters and the loved flag; every caller of
\* the queue strategies passes the default context, under which a cached
\* value is the value computed here.
calculate_score_functional(song, context) ==
    LET base_score == IF song.touches < context.touch_threshold
                      THEN calculate_weighted_score(song, context.weights)
                      ELSE calculate_dampened_score(song)
    IN  apply_love_multiplier(Max({base_score, 0}), song.loved,
                              context.love_multiplier)

\* base_score * log_1.2(count + 1) * 1.1, in units of 1e-7 (thousandths of
\* the base, thousandths of the logarithm, tenths of the factor).
apply_connection_weight_advanced(base_score, connection_count) ==
    IF connection_count = 0 THEN base_score * 10000
    ELSE base_score * Log12[connection_count + 1] * 11

\* ========================================================= queue generation
\* The rows of get_song_connections: the edges out of song_id whose target is
\* a song, ORDER BY count DESC.  SQLite fixes no order among rows of equal
\* count, so every such order is a possible result.
get_song_connections(sgs, conns, song_id) ==
    LET rows == {r \in conns : r.from_song_id = song_id /\ r.to_song_id \in DOMAIN sgs}
    IN  {s \in [1..Cardinality(rows) -> rows] :
            \A i, j \in DOMAIN s :
                i < j => s[i] # s[j] /\ s[i].count >= s[j].count}

\* Iterator::max_by on (song, score) pairs: of several maximal elements the
\* last one.
MaxByScore(scored) ==
    scored[CHOOSE i \in DOMAIN scored :
               /\ \A j \in DOMAIN scored : scored[j].score <= scored[i].score
               /\ \A j \in DOMAIN scored :
                      j > i => scored[j].score < scored[i].score]

\* sorted_by(|a, b| b.cmp(a)) on (song, score) pairs: descending and stable.
SortedDescByScore(scored) ==
    LET p == CHOOSE q \in [DOMAIN scored -> DOMAIN scored] :
                 \A i, j \in DOMAIN scored :
                     i < j => \/ scored[q[i]].score > scored[q[j]].score
                              \/ /\ scored[q[i]].score = scored[q[j]].score
                                 /\ q[i] < q[j]
    IN  [i \in DOMAIN scored |-> scored[p[i]]]

\* Vec::truncate(n) and Iterator::take(n).
Take(s, n) == SubSeq(s, 1, Min(n, Len(s)))

convert_song_to_queued(song) ==
    [path |-> song.path,
     score |-> calculate_score_functional(song, ScoringContext)]

\* .map(|(song, count)| (song, enhanced_score)) on rows of get_song_connections.
WithEnhancedScore(sgs, rows) ==
    [k \in DOMAIN rows |->
        [song |-> rows[k].to_song_id,
         score |-> apply_connection_weight_advanced(
                       calculate_score_functional(sgs[rows[k].to_song_id],
                                                  ScoringContext),
                       rows[k].count)]]

\* .map(|(song, _)| (song, score)) on rows of get_song_connections.
WithScore(sgs, rows) ==
    [k \in DOMAIN rows |->
        [song |-> rows[k].to_song_id,
         score |-> calculate_score_functional(sgs[rows[k].to_song_id],
                                              ScoringContext)]]

\* The loop of generate_connection_path from current_id with n rounds left:
\* every path it may return, over the row orders the database may produce.
RECURSIVE WalkFrom(_, _, _, _, _)
WalkFrom(sgs, conns, current_id, visited, n) ==
    IF n = 0 THEN {<< >>}
    ELSE UNION {
        LET candidates == SelectSeq(rows, LAMBDA r : r.to_song_id \notin visited)
        IN  IF candidates = << >> THEN {<< >>}
            ELSE LET next_song == MaxByScore(WithEnhancedScore(sgs, candidates)).song
                 IN  IF calculate_score_functional(sgs[next_song], ScoringContext) > 0
                     THEN {<<convert_song_to_queued(sgs[next_song])>> \o rest :
                              rest \in WalkFrom(sgs, conns, next_song,
                                                visited \cup {next_song}, n - 1)}
                     ELSE {<< >>}
        : rows \in get_song_connections(sgs, conns, current_id)}

generate_connection_path_Unseeded(sgs, conns, start_id, max_length) ==
    WalkFrom(sgs, conns, start_id, {}, max_length)

generate_connection_path(sgs, conns, start_id, max_length) ==
    WalkFrom(sgs, conns, start_id, {start_id}, max_length)

\* The songs the paths hold at index i, in the order of the paths.
RECURSIVE InterleaveRow(_, _, _)
InterleaveRow(paths, i, k) ==
    IF k > Len(paths) THEN << >>
    ELSE (IF i <= Len(paths[k]) THEN <<paths[k][i]>> ELSE << >>)
         \o InterleaveRow(paths, i, k + 1)

RECURSIVE InterleaveFrom(_, _, _)
RECURSIVE interleave_paths_Chained(_)
InterleaveFrom(paths, i, max_len) ==
    IF i > max_len THEN << >>
    ELSE InterleaveRow(paths, i, 1) \o InterleaveFrom(paths, i + 1, max_len)

interleave_paths_Chained(paths) ==
    IF Len(paths) = 0 THEN << >>
    ELSE paths[1] \o interleave_paths_Chained(Tail(paths))

interleave_paths(paths) ==
    InterleaveFrom(paths, 1, Max({0} \cup {Len(paths[k]) : k \in DOMAIN paths}))

\* SELECT * FROM songs WHERE id NOT IN (visited) ORDER BY RANDOM() LIMIT 1
get_random_song_functional(sgs, visited) ==
    IF DOMAIN sgs \ visited = {} THEN {None}
    ELSE {Some(i) : i \in DOMAIN sgs \ visited}

\* A strategy's result: Ok(queue) or an error.
QueueOk(queue) == [ok |-> TRUE, queue |-> queue]
QueueErr == [ok |-> FALSE, queue |-> << >>]

\* The padding loop of extend_queue_functionally once the queue is q; visited
\* holds the paths of the queue the function was given and is not added to.
RECURSIVE PadFrom(_, _, _, _)
PadFrom(sgs, visited, q, config) ==
    IF Len(q) >= config.min_length
    THEN {QueueOk(Take(q, config.max_length))}
    ELSE UNION {
        IF random_song.some /\ sgs[random_song.v].path \notin visited
        THEN PadFrom(sgs, visited,
                     Append(q, convert_song_to_queued(sgs[random_song.v])), config)
        ELSE {QueueErr}
        : random_song \in get_random_song_functional(sgs, {})}

extend_queue_functionally(sgs, queue, config) ==
    PadFrom(sgs, {queue[i].path : i \in DOMAIN queue}, queue, config)

validate_queue_quality_NoCheck(queue, config) == QueueOk(queue)

validate_queue_quality(queue, config) ==
    IF Len(queue) < config.min_length THEN QueueErr ELSE QueueOk(queue)

\* The queue a strategy starts from: the seed, then what it found.
StartQueue_SeedLast(seed, found) == Append(found, seed)

StartQueue(seed, found) == <<seed>> \o found

\* The first half of CurrentQueueStrategy::generate: the paths of the two top
\* connections and their interleaving, for every row order and every walk.
CurrentBodies(sgs, conns, starting_song) ==
    UNION {
        LET top_connections ==
                Take(SortedDescByScore(WithEnhancedScore(sgs, rows)), 2)
            found == [k \in DOMAIN top_connections |->
                         generate_connection_path(sgs, conns,
                             top_connections[k].song, 4)]
        IN  {[paths |-> paths, body |-> interleave_paths(paths)]
                : paths \in {ps \in [DOMAIN top_connections ->
                                        UNION {found[k] : k \in DOMAIN found}] :
                                \A k \in DOMAIN ps : ps[k] \in found[k]}}
        : rows \in get_song_connections(sgs, conns, starting_song)}

\* CurrentQueueStrategy::generate: every result it may return.
CurrentGenerate(sgs, conns, starting_song, config) ==
    UNION {
        extend_queue_functionally(sgs,
            Take(StartQueue(convert_song_to_queued(sgs[starting_song]), b.body),
                 config.max_length),
            config)
        : b \in CurrentBodies(sgs, conns, starting_song)}

\* ThreadQueueStrategy::generate.
ThreadGenerate(sgs, conns, starting_song, config) ==
    UNION {
        extend_queue_functionally(sgs,
            StartQueue(convert_song_to_queued(sgs[starting_song]), path), config)
        : path \in generate_connection_path(sgs, conns, starting_song,
                                            config.max_length - 1)}

\* select_next_song_probabilistically giving up below four connections.
select_next_song_probabilistically_Four(sgs, conns, current_id, visited, exploration_ratio) ==
    UNION {
        IF Len(rows) < 4 THEN {None}
        ELSE LET candidates == SelectSeq(rows, LAMBDA r : r.to_song_id \notin visited)
             IN  IF candidates = << >> THEN {None}
                 ELSE (IF exploration_ratio > 0
                       THEN {Some(candidates[k].to_song_id) : k \in DOMAIN candidates}
                       ELSE {})
                      \cup
                      (IF exploration_ratio < 10
                       THEN {Some(MaxByScore(WithScore(sgs, candidates)).song)}
                       ELSE {})
        : rows \in get_song_connections(sgs, conns, current_id)}

\* select_next_song_probabilistically: every Option<Song> it may return.  The
\* ratio is in tenths; gen::<f64>() lies in [0, 1), so it explores only when
\* the ratio is above 0 and exploits only when it is below 1.
select_next_song_probabilistically(sgs, conns, current_id, visited, exploration_ratio) ==
    UNION {
        IF Len(rows) < 3 THEN {None}
        ELSE LET candidates == SelectSeq(rows, LAMBDA r : r.to_song_id \notin visited)
             IN  IF candidates = << >> THEN {None}
                 ELSE (IF exploration_ratio > 0
                       THEN {Some(candidates[k].to_song_id) : k \in DOMAIN candidates}
                       ELSE {})
                      \cup
                      (IF exploration_ratio < 10
                       THEN {Some(MaxByScore(WithScore(sgs, candidates)).song)}
                       ELSE {})
        : rows \in get_song_connections(sgs, conns, current_id)}

\* The queue length StreamQueueStrategy::generate fills up to.
StreamLength == 30

\* The loop of StreamQueueStrategy::generate once the queue is q.
RECURSIVE StreamFrom(_, _, _, _, _, _)
StreamFrom(sgs, conns, q, current_id, visited, config) ==
    IF Len(q) >= StreamLength THEN {QueueOk(q)}
    ELSE UNION {
        IF next_song.some
        THEN StreamFrom(sgs, conns, Append(q, convert_song_to_queued(sgs[next_song.v])),
                        next_song.v, visited \cup {next_song.v}, config)
        ELSE UNION {
            IF random_song.some
            THEN StreamFrom(sgs, conns,
                            Append(q, convert_song_to_queued(sgs[random_song.v])),
                            random_song.v, visited \cup {random_song.v}, config)
            ELSE {QueueOk(q)}
            : random_song \in get_random_song_functional(sgs, visited)}
        : next_song \in select_next_song_probabilistically(
                            sgs, conns, current_id, visited, config.exploration_ratio)}

StreamGenerate(sgs, conns, starting_song, config) ==
    StreamFrom(sgs, conns,
               StartQueue(convert_song_to_queued(sgs[starting_song]), << >>),
               starting_song, {starting_song}, config)

\* generate_queue_functional for a song name that names starting_song:
\* strategy.generate(..).and_then(validate_queue_quality).
generate_queue_functional(generated, config) ==
    {IF out.ok THEN validate_queue_quality(out.queue, config) ELSE QueueErr :
        out \in generated}

\* ------------------------------------------------------ generating a queue
MaxQueue == 3       \* largest max_length drawn for a QueueConfig
MaxCount == 2       \* largest count drawn for an edge out of the seed

\* QueueConfig values with 1 <= min_length <= max_length, the shape of every
\* config the program builds (9 and 27, 9 and 30); exploration_ratio 0.3.
QueueConfigs ==
    {c \in [min_length : 1..MaxQueue, max_length : 1..MaxQueue,
            exploration_ratio : {3}] : c.min_length <= c.max_length}

\* Listening histories: played through twice and loved, played through twice,
\* skipped three times, long known with one listen more than skips, never
\* played.
SeedRow(path) == [NewSong(path) EXCEPT !.touches = 2, !.listens = 2, !.loved = TRUE]
Histories(path) ==
    {[NewSong(path) EXCEPT !.touches = 2, !.listens = 2],
     [NewSong(path) EXCEPT !.touches = 3, !.skips = 3],
     [NewSong(path) EXCEPT !.touches = 30, !.listens = 16, !.skips = 15]}

\* The edges a catalogue of SpecQueue may hold, with the largest count of each.
QueueEdges == <<<<1, 2>>, <<1, 3>>, <<1, 4>>, <<2, 1>>, <<2, 3>>, <<3, 4>>>>
QueueEdgeMax(k) == IF k <= 2 THEN MaxCount ELSE 1

\* A catalogue of four songs with some of these edges.
SmallCatalogue ==
    /\ songs \in {[i \in 1..4 |-> IF i = 1 THEN SeedRow(<<MusicDir, "a">>)
                                  ELSE IF i = 2 THEN h2
                                  ELSE IF i = 3 THEN h3
                                  ELSE NewSong(<<MusicDir, "d">>)] :
                     h2 \in Histories(<<MusicDir, "b">>),
                     h3 \in Histories(<<MusicDir, "c">>)}
    /\ \E cnt \in [DOMAIN QueueEdges -> 0..MaxCount] :
          /\ \A k \in DOMAIN cnt : cnt[k] <= QueueEdgeMax(k)
          /\ connections = {[id |-> k, from_song_id |-> QueueEdges[k][1],
                             to_song_id |-> QueueEdges[k][2], count |-> cnt[k]] :
                               k \in {e \in DOMAIN cnt : cnt[e] > 0}}

\* A catalogue of two songs, fewer than min_length may ask for.
TinyCatalogue ==
    /\ songs \in {[i \in 1..2 |-> IF i = 1 THEN SeedRow(<<MusicDir, "a">>) ELSE h2] :
                     h2 \in Histories(<<MusicDir, "b">>)}
    /\ \E there, back \in BOOLEAN :
          connections =
              {[id |-> 1, from_song_id |-> 1, to_song_id |-> 2, count |-> 1] :
                  x \in {there} \ {FALSE}}
              \cup
              {[id |-> 2, from_song_id |-> 2, to_song_id |-> 1, count |-> 1] :
                  x \in {back} \ {FALSE}}

LongSongs == 32     \* songs in the long catalogue, more than a Stream queue holds

\* The configs the program builds for Current and Thread (9, 27) and for
\* Stream (9, 30), here with exploration switched off, and a short one.
LongConfigs ==
    {[min_length |-> 9, max_length |-> 27, exploration_ratio |-> 0],
     [min_length |-> 9, max_length |-> 30, exploration_ratio |-> 0],
     [min_length |-> 2, max_length |-> 3, exploration_ratio |-> 0]}

\* Song i of the long catalogue: played through as often as touched, every
\* song twice ("even") or once, twice, three times by turns ("graded").
LongRow(i, style) ==
    LET n == IF style = "even" THEN 2 ELSE 1 + (i % 3)
    IN  [NewSong(<<MusicDir, ToString(i)>>) EXCEPT !.touches = n, !.listens = n]

\* The long catalogue: a ring in which every song has an edge to each of the
\* next three, their counts falling (3, 2, 1) or rising (1, 2, 3).
LongCatalogue ==
    /\ \E style \in {"even", "graded"} :
          songs = [i \in 1..LongSongs |-> LongRow(i, style)]
    /\ \E falling \in BOOLEAN :
          connections = {[id |-> 3 * (i - 1) + d, from_song_id |-> i,
                          to_song_id |-> ((i + d - 1) % LongSongs) + 1,
                          count |-> IF falling THEN 4 - d ELSE d] :
                            i \in 1..LongSongs, d \in 1..3}

\* A catalogue, a config and a seed; nothing has been generated.
InitQueue ==
    /\ \/ SmallCatalogue /\ arg \in [config : QueueConfigs, seed : {1}]
       \/ TinyCatalogue /\ arg \in [config : QueueConfigs, seed : {1}]
       \/ LongCatalogue /\ arg \in [config : LongConfigs, seed : {1, 2, 3}]
    /\ status_format = "position"
    /\ idPaths = [i \in 1..MaxId |-> IF i \in DOMAIN songs THEN {songs[i].path} ELSE {}]
    /\ PlainBuild
    /\ InitTracker
    /\ budget = 1
    /\ res = None
    /\ nops = 0
    /\ last = NoLast

\* One run of generate_queue_functional with the strategy's generate.
GenerateQueue(strategy, generated) ==
    /\ res = None
    /\ \E out \in generate_queue_functional(generated, arg.config) :
          res' = Some([strategy |-> strategy, ok |-> out.ok, queue |-> out.queue])
    /\ UNCHANGED <<songs, connections, foreign_keys, status_format, budget, arg,
                   nops, idPaths, last>>
    /\ UnchangedTracker

GenerateCurrent ==
    GenerateQueue("current", CurrentGenerate(songs, connections, arg.seed, arg.config))

GenerateThread ==
    GenerateQueue("thread", ThreadGenerate(songs, connections, arg.seed, arg.config))

GenerateStream ==
    GenerateQueue("stream", StreamGenerate(songs, connections, arg.seed, arg.config))

NextQueue == GenerateCurrent \/ GenerateThread \/ GenerateStream

SpecQueue == InitQueue /\ [][NextQueue]_vars

\* C10: for each of the Current, Thread and Stream strategies, every
\* successfully generated queue has the seed song at index 0.
C10_SeedFirst ==
    (res.some /\ res.v.ok) =>
        /\ Len(res.v.queue) >= 1
        /\ res.v.queue[1].path = songs[arg.seed].path

\* A Current queue that was cut to max_length and still starts with the seed.
C10_Witness ==
    /\ res.some /\ res.v.ok /\ res.v.strategy = "current"
    /\ Len(res.v.queue) = arg.config.max_length
    /\ Len(res.v.queue) >= 2
    /\ res.v.queue[1].path = songs[arg.seed].path
    /\ res.v.queue[2].path # songs[arg.seed].path
    /\ \E rows \in get_song_connections(songs, connections, arg.seed) :
          Len(rows) >= 2

\* C11: every successfully generated Current or Thread queue has
\* min_length <= length <= max_length, every successfully generated Stream
\* queue has length <= 30, and no successfully generated queue is shorter than
\* min_length.
C11_QueueBounds ==
    (res.some /\ res.v.ok) =>
        /\ Len(res.v.queue) >= arg.config.min_length
        /\ res.v.strategy \in {"current", "thread"} =>
               Len(res.v.queue) <= arg.config.max_length
        /\ res.v.strategy = "stream" => Len(res.v.queue) <= 30

\* A Stream queue that stopped at 30 songs in a catalogue that holds more.
C11_Witness ==
    /\ res.some /\ res.v.ok /\ res.v.strategy = "stream"
    /\ Len(res.v.queue) = 30
    /\ Cardinality(DOMAIN songs) > 30

\* ------------------------------------------------------------ the path walk
MaxWalk == 5        \* largest max_length drawn for a walk, beside the program's

\* The lengths a walk is asked for: short ones, and max_length - 1 of the
\* configs the program builds.
WalkLengths == (0..MaxWalk) \cup {c.max_length - 1 : c \in LongConfigs}

InitWalk ==
    /\ SmallCatalogue \/ TinyCatalogue \/ LongCatalogue
    /\ status_format = "position"
    /\ idPaths = [i \in 1..MaxId |-> IF i \in DOMAIN songs THEN {songs[i].path} ELSE {}]
    /\ PlainBuild
    /\ InitTracker
    /\ budget = 1
    /\ arg = None /\ res = None
    /\ nops = 0
    /\ last = NoLast

\* One call generate_connection_path(start_id, max_length, context).
WalkPath(start_id, max_length) ==
    /\ res = None
    /\ \E path \in generate_connection_path(songs, connections, start_id, max_length) :
          res' = Some([start_id |-> start_id, max_length |-> max_length,
                       path |-> path])
    /\ UNCHANGED <<songs, connections, foreign_keys, status_format, budget, arg,
                   nops, idPaths, last>>
    /\ UnchangedTracker

NextWalk == \E start_id \in DOMAIN songs, max_length \in WalkLengths :
                WalkPath(start_id, max_length)

SpecWalk == InitWalk /\ [][NextWalk]_vars

\* C12: generate_connection_path never emits the same song twice, never emits
\* start_id, and emits at most max_length songs, whatever the edges.
C12_WalkVisitsOnce ==
    res.some =>
        /\ Len(res.v.path) <= res.v.max_length
        /\ \A i \in DOMAIN res.v.path :
               /\ res.v.path[i].path # songs[res.v.start_id].path
               /\ \A j \in DOMAIN res.v.path :
                      i # j => res.v.path[i].path # res.v.path[j].path

\* A walk of two songs or more that was stopped by max_length, the last song
\* of which has an edge back to the start.
C12_Witness ==
    /\ res.some
    /\ Len(res.v.path) = res.v.max_length
    /\ Len(res.v.path) >= 2
    /\ \E r \in connections :
          /\ r.to_song_id = res.v.start_id
          /\ songs[r.from_song_id].path = res.v.path[Len(res.v.path)].path

\* ------------------------------------------------------------ interleaving
MaxPath == 3        \* longest path drawn for interleave_paths

\* Paths over the entries of two songs, up to MaxPath long.
DrawnPaths ==
    UNION {[1..n -> {convert_song_to_queued(NewSong(<<MusicDir, f>>)) :
                        f \in {"a", "b"}}] : n \in 0..MaxPath}

\* Two drawn paths beside an empty catalogue, or a catalogue whose Current
\* body is to be built.
InitInterleave ==
    /\ \/ /\ songs = << >> /\ connections = {}
          /\ arg \in {Some(<<p, q>>) : p \in DrawnPaths, q \in DrawnPaths}
       \/ /\ SmallCatalogue \/ TinyCatalogue \/ LongCatalogue
          /\ arg = None
    /\ status_format = "position"
    /\ idPaths = [i \in 1..MaxId |-> IF i \in DOMAIN songs THEN {songs[i].path} ELSE {}]
    /\ PlainBuild
    /\ InitTracker
    /\ budget = 1
    /\ res = None
    /\ nops = 0
    /\ last = NoLast

\* interleave_paths on the two drawn paths.
InterleaveDrawn ==
    /\ res = None /\ arg.some
    /\ res' = Some([paths |-> arg.v, body |-> interleave_paths(arg.v)])
    /\ UNCHANGED <<songs, connections, foreign_keys, status_format, budget, arg,
                   nops, idPaths, last>>
    /\ UnchangedTracker

\* The body of a Current queue for song 1 of the catalogue.
InterleaveCurrent ==
    /\ res = None /\ ~arg.some
    /\ \E b \in CurrentBodies(songs, connections, 1) : res' = Some(b)
    /\ UNCHANGED <<songs, connections, foreign_keys, status_format, budget, arg,
                   nops, idPaths, last>>
    /\ UnchangedTracker

NextInterleave == InterleaveDrawn \/ InterleaveCurrent

SpecInterleave == InitInterleave /\ [][NextInterleave]_vars

\* r is P[0], Q[0], P[1], Q[1], ... with an exhausted path skipped: it is as
\* long as both together, P[k] and Q[k] alternate while both last, and what is
\* left of the longer path follows in its order.
InterleavesAs(r, P, Q) ==
    /\ Len(r) = Len(P) + Len(Q)
    /\ \A k \in DOMAIN P : r[IF k <= Len(Q) THEN 2 * k - 1 ELSE k + Len(Q)] = P[k]
    /\ \A k \in DOMAIN Q : r[IF k <= Len(P) THEN 2 * k ELSE k + Len(P)] = Q[k]

\* C13: interleave_paths of two paths P and Q is P[0], Q[0], P[1], Q[1], ...,
\* each path in its order, an exhausted path skipped, every element once; the
\* body of a Current queue is this interleaving of its paths.
C13_InterleaveOrder ==
    res.some =>
        InterleavesAs(res.v.body,
                      IF Len(res.v.paths) >= 1 THEN res.v.paths[1] ELSE << >>,
                      IF Len(res.v.paths) >= 2 THEN res.v.paths[2] ELSE << >>)

\* A Current body of two walks of two songs or more, taken by turns.
C13_Witness ==
    /\ res.some /\ ~arg.some
    /\ Len(res.v.paths) = 2
    /\ Len(res.v.paths[1]) >= 2 /\ Len(res.v.paths[2]) >= 2
    /\ res.v.paths[1] # res.v.paths[2]
    /\ res.v.body[2] = res.v.paths[2][1]
    /\ res.v.body[3] = res.v.paths[1][2]

\* ------------------------------------------------- scores of any counters
\* A u32 as two 16-bit limbs <<hi, lo>>, worth hi * 65536 + lo, so that the
\* values near u32::MAX can be written down.
U32(n) == <<0, n>>
U32Max == <<65535, 65535>>

\* a + 1 on u32 as the release profile computes it: wrapping.
WrappingSucc(a) ==
    IF a[2] < 65535 THEN <<a[1], a[2] + 1>>
    ELSE IF a[1] < 65535 THEN <<a[1] + 1, 0>>
    ELSE <<0, 0>>

\* a < n for a small n.
U32Less(a, n) == a[1] = 0 /\ a[2] < n
U32AtMost(a, n) == a[1] = 0 /\ a[2] <= n

Sgn(n) == IF n > 0 THEN 1 ELSE IF n < 0 THEN 0 - 1 ELSE 0

\* An f64 by what the claims ask of it: finite, infinite or NaN, and its sign.
Finite(sgn) == [cls |-> "finite", sgn |-> sgn]
Infinite(sgn) == [cls |-> "infinite", sgn |-> sgn]
NaN == [cls |-> "nan", sgn |-> 0]

\* x * y in f64.  Products of u32 values, their logarithms and the weights
\* stay far below f64::MAX.
F64Mul(x, y) ==
    IF x.cls = "nan" \/ y.cls = "nan" THEN NaN
    ELSE IF x.cls = "finite" /\ y.cls = "finite" THEN Finite(x.sgn * y.sgn)
    ELSE IF x.sgn * y.sgn = 0 THEN NaN
    ELSE Infinite(x.sgn * y.sgn)

\* f64::max(x, 0.0): the other operand when one is NaN.
F64Max0(x) == IF x.cls = "nan" \/ x.sgn < 0 THEN Finite(0) ELSE x

\* f64::from(listen_weight) * f64::from(listens)
\*   - f64::from(skip_weight) * f64::from(skips), weights at most 4: with
\* hi at 5 or above (-5 or below) the low limbs cannot turn the sign.
WeightedClass(song, weights) ==
    LET w == IF U32Less(song.touches, weights.small_threshold)
             THEN weights.early_exploration
             ELSE IF U32AtMost(song.touches, weights.big_threshold)
             THEN weights.learning_phase
             ELSE weights.stable_preferences
        hi == w[1] * song.listens[1] - w[2] * song.skips[1]
        lo == w[1] * song.listens[2] - w[2] * song.skips[2]
    IN  Finite(IF hi >= 5 THEN 1 ELSE IF hi <= 0 - 5 THEN 0 - 1
               ELSE Sgn(hi * 65536 + lo))

\* f64::from(song.touches + 1).log(1.2) * (listens - skips) with touches + 1
\* already computed: log of 0 is -inf, of 1 is 0, of more is positive.
DampenedClass(touches_plus_1, song) ==
    LET dampening_factor == IF touches_plus_1 = <<0, 0>> THEN Infinite(0 - 1)
                            ELSE IF touches_plus_1 = <<0, 1>> THEN Finite(0)
                            ELSE Finite(1)
        hi == song.listens[1] - song.skips[1]
        lo == song.listens[2] - song.skips[2]
    IN  F64Mul(dampening_factor,
               Finite(IF hi > 0 THEN 1 ELSE IF hi < 0 THEN 0 - 1 ELSE Sgn(lo)))

\* apply_love_multiplier: score * 2.0 when loved.
LoveClass(score, loved) == IF loved THEN F64Mul(score, Finite(1)) ELSE score

\* calculate_score_functional on a song of any counters: it panics, or
\* returns an f64.  song.touches + 1 on u32::MAX panics where the profile
\* checks overflow (debug) and wraps where it does not (release).
ScoreClass(song, context, overflow_checks) ==
    IF U32Less(song.touches, context.touch_threshold)
    THEN [panic |-> FALSE,
          score |-> LoveClass(F64Max0(WeightedClass(song, context.weights)),
                              song.loved)]
    ELSE IF song.touches = U32Max /\ overflow_checks
    THEN [panic |-> TRUE, score |-> NaN]
    ELSE [panic |-> FALSE,
          score |-> LoveClass(F64Max0(DampenedClass(WrappingSucc(song.touches),
                                                    song)),
                              song.loved)]

\* Counters around the thresholds of the default context and at the top of u32.
CounterSamples ==
    {U32(n) : n \in {0, 1, 2, 4, 5, 15, 16, 29, 30, 1000}}
        \cup {<<65535, 65534>>, U32Max}

InitScore ==
    /\ InitCatalogue
    /\ PlainBuild
    /\ InitTracker
    /\ budget = 1
    /\ arg \in [touches : CounterSamples, listens : CounterSamples,
                skips : CounterSamples, loved : BOOLEAN,
                overflow_checks : BOOLEAN]
    /\ res = None
    /\ nops = 0
    /\ last = NoLast

\* One call calculate_score_functional(song, &ScoringContext::default()).
Score ==
    /\ res = None
    /\ res' = Some(ScoreClass(arg, ScoringContext, arg.overflow_checks))
    /\ UNCHANGED <<songs, connections, foreign_keys, status_format, budget, arg,
                   nops, idPaths, last>>
    /\ UnchangedTracker

NextScore == Score

SpecScore == InitScore /\ [][NextScore]_vars

\* C14: for every combination of touches, listens, skips and loved flag, the
\* score under the default context is >= 0 and finite.
C14_ScoreFiniteNonNegative ==
    res.some =>
        /\ ~res.v.panic
        /\ res.v.score.cls = "finite"
        /\ res.v.score.sgn >= 0

\* x * 2.0 > x and x * 2.0 = x in f64, for x >= 0 or NaN: doubling a finite
\* score of u32 counters is exact, doubling +inf gives +inf.
DoubledExceeds(x) == x.cls = "finite" /\ x.sgn > 0
DoubledEquals(x) == x.cls # "nan" /\ (x.sgn = 0 \/ x.cls = "infinite")

\* The counters of arg as integers, where all three are small.
SmallCounters == arg.touches[1] = 0 /\ arg.touches[2] <= 30
                 /\ arg.listens[1] = 0 /\ arg.listens[2] <= 30
                 /\ arg.skips[1] = 0 /\ arg.skips[2] <= 30
SmallSong(loved) ==
    [touches |-> arg.touches[2], listens |-> arg.listens[2],
     skips |-> arg.skips[2], loved |-> loved]

\* C16: for identical counters and the default context the loved score is >=
\* the unloved score, strictly greater when the clamped base score is > 0 and
\* equal when it is 0.
C16_LovedDominance ==
    res.some =>
        LET unloved == ScoreClass([arg EXCEPT !.loved = FALSE], ScoringContext,
                                  arg.overflow_checks)
            loved == ScoreClass([arg EXCEPT !.loved = TRUE], ScoringContext,
                                arg.overflow_checks)
            base == unloved.score
        IN  /\ ~unloved.panic /\ ~loved.panic
            /\ base.sgn > 0 => DoubledExceeds(base)
            /\ base.sgn = 0 => DoubledEquals(base)
            /\ SmallCounters =>
                 LET lo == calculate_score_functional(SmallSong(FALSE),
                                                      ScoringContext)
                     hi == calculate_score_functional(SmallSong(TRUE),
                                                      ScoringContext)
                 IN  /\ hi >= lo
                     /\ lo > 0 <=> hi > lo
                     /\ lo > 0 <=> base.sgn > 0

\* ------------------------------------------------- scores of small counters
MaxCounter == 12
\* Log12 covers touches + 1 up to 32.
MaxTouches == 31

InitWeighted ==
    /\ InitCatalogue
    /\ PlainBuild
    /\ InitTracker
    /\ budget = 1
    /\ arg \in [touches : 0..MaxTouches, listens : 0..MaxCounter,
                skips : 0..MaxCounter, loved : BOOLEAN]
    /\ res = None
    /\ nops = 0
    /\ last = NoLast

\* One call calculate_score_functional(song, &ScoringContext::default()) with
\* an empty cache.
ScoreSmall ==
    /\ res = None
    /\ res' = Some(calculate_score_functional(arg, ScoringContext))
    /\ UNCHANGED <<songs, connections, foreign_keys, status_format, budget, arg,
                   nops, idPaths, last>>
    /\ UnchangedTracker

NextWeighted == ScoreSmall

SpecWeighted == InitWeighted /\ [][NextWeighted]_vars

\* C17: for touches < 30 the default-context score is
\* max(wL * listens - wS * skips, 0), doubled when loved, with (wL, wS) =
\* (4, 1) for touches < 5, (2, 2) for 5..15 and (1, 4) for 16..29; so
\* {3, 2, 1, unloved} scores 7 and {20, 5, 12, unloved} scores 0.
C17_WeightedPiecewise ==
    (res.some /\ arg.touches < 30) =>
        LET wL == IF arg.touches < 5 THEN 4 ELSE IF arg.touches <= 15 THEN 2 ELSE 1
            wS == IF arg.touches < 5 THEN 1 ELSE IF arg.touches <= 15 THEN 2 ELSE 4
            base == wL * arg.listens - wS * arg.skips
            clamped == IF base > 0 THEN base ELSE 0
        IN  /\ res.v = 1000 * (IF arg.loved THEN 2 * clamped ELSE clamped)
            /\ (arg.touches = 3 /\ arg.listens = 2 /\ arg.skips = 1
                /\ ~arg.loved) => res.v = 7000
            /\ (arg.touches = 20 /\ arg.listens = 5 /\ arg.skips = 12
                /\ ~arg.loved) => res.v = 0

\* A song at the upper edge of the learning phase has been scored with the
\* weights (2, 2), and loved.
C17_Witness ==
    /\ res.some
    /\ arg.touches = 15 /\ arg.listens = 5 /\ arg.skips = 2 /\ arg.loved
    /\ res.v = 12000

\* ------------------------------------------------- the memo cache
CacheLimit == 10000
MaxScoreCalls == 3

\* SongFingerprint::from(song)
SongFingerprint(song) ==
    [touches |-> song.touches, listens |-> song.listens,
     skips |-> song.skips, loved |-> song.loved]

\* calculate_score_functional with SCORE_CACHE, a set of (fingerprint, score)
\* entries with one entry a fingerprint: the returned score and the cache
\* after the call.
ScoreWithCache(cache, song, context) ==
    LET fingerprint == SongFingerprint(song)
        hits == {c \in cache : c.fingerprint = fingerprint}
    IN  IF hits # {}
        THEN [score |-> (CHOOSE c \in hits : TRUE).score, cache |-> cache]
        ELSE LET final_score == calculate_score_functional(song, context)
                 inserted == cache \cup {[fingerprint |-> fingerprint,
                                          score |-> final_score]}
             IN  [score |-> final_score,
                  cache |-> IF Cardinality(inserted) > CacheLimit THEN {}
                            ELSE inserted]

\* Contexts a caller of the library can build: the default, a larger love
\* multiplier, a lower touch threshold.
ContextSamples ==
    {ScoringContext, [ScoringContext EXCEPT !.love_multiplier = 3],
     [ScoringContext EXCEPT !.touch_threshold = 10]}

CachedSongs ==
    [touches : {3, 20}, listens : {5}, skips : {1}, loved : BOOLEAN]

\* arg holds SCORE_CACHE, empty when the process starts.
InitCache ==
    /\ InitCatalogue
    /\ PlainBuild
    /\ InitTracker
    /\ budget = MaxScoreCalls
    /\ arg = {}
    /\ res = None
    /\ nops = 0
    /\ last = NoLast

\* One call calculate_score_functional(song, context).
ScoreCall(song, context) ==
    /\ nops < budget
    /\ \E out \in {ScoreWithCache(arg, song, context)} :
          /\ arg' = out.cache
          /\ res' = Some([song |-> song, context |-> context,
                          score |-> out.score])
    /\ nops' = nops + 1
    /\ UNCHANGED <<songs, connections, foreign_keys, status_format, budget,
                   idPaths, last>>
    /\ UnchangedTracker

NextCache == \E song \in CachedSongs : \E context \in ContextSamples :
                ScoreCall(song, context)

SpecCache == InitCache /\ [][NextCache]_vars

\* C15: calculate_score_functional(s, c) returns the uncached piecewise value
\* of (s, c) whatever earlier calls have put into the memo cache, calls for
\* the same counters under another context included.
C15_CacheTransparent ==
    res.some =>
        res.v.score = calculate_score_functional(res.v.song, res.v.context)

\* ------------------------------------------------- paths as text
\* A path string is the sequence of its segments between '/' characters:
\* "/music//a" is <<"", "music", "", "a">>, "/" is <<"", "">>, the empty
\* string is <<>>.  The target is Unix (cfg!(windows) is false).
MaxSegs == 5
Segments == {"", ".", "..", "music", "a"}
PathStrings ==
    UNION {[1..n -> Segments] : n \in 0..MaxSegs} \ {<<"">>}

\* Path::has_root / Path::is_absolute
is_absolute(p) == Len(p) >= 2 /\ p[1] = ""

\* Whether segment i of p is a component for Path::components: the root, a
\* name or "..", or a "." that starts a relative path.
IsComponent(p, i) ==
    \/ i = 1 /\ is_absolute(p)
    \/ p[i] \notin {"", "."}
    \/ p[i] = "." /\ i = 1 /\ ~is_absolute(p)

ComponentIndexes(p) == {i \in 1..Len(p) : IsComponent(p, i)}

RECURSIVE ComponentsFrom(_, _)
ComponentsFrom(p, i) ==
    IF i > Len(p) THEN <<>>
    ELSE (IF IsComponent(p, i)
          THEN <<IF i = 1 /\ is_absolute(p) THEN "/" ELSE p[i]>> ELSE <<>>)
         \o ComponentsFrom(p, i + 1)

\* Path::components
Components(p) == ComponentsFrom(p, 1)

\* Path == Path compares components.
PathEq(p, q) == Components(p) = Components(q)

IsPrefix(s, t) == Len(s) <= Len(t) /\ SubSeq(t, 1, Len(s)) = s

\* Components::as_path after no trimming: the text as it stands.
TrimRest_Raw(rest) == rest

\* Components::as_path in the body of a path: the remaining text without the
\* separators and "." segments at its two ends.
TrimRest(rest) ==
    LET kept == {i \in 1..Len(rest) : rest[i] \notin {"", "."}}
    IN  IF kept = {} THEN <<>>
        ELSE SubSeq(rest, CHOOSE i \in kept : \A j \in kept : i <= j,
                    Max(kept))

\* Path::strip_prefix(base): the text left after the components of base.
strip_prefix(p, base) ==
    LET n == Len(Components(base))
        idx == ComponentIndexes(p)
    IN  IF ~IsPrefix(Components(base), Components(p)) THEN None
        ELSE IF n = 0 THEN Some(p)
        ELSE LET last_i == CHOOSE i \in idx :
                               Cardinality({j \in idx : j <= i}) = n
             IN  Some(TrimRest(SubSeq(p, last_i + 1, Len(p))))

\* PathBuf::join: an absolute path replaces the base; otherwise a separator
\* is added unless the base ends with one.
join(base, path) ==
    IF is_absolute(path) \/ base = <<>> THEN path
    ELSE IF base[Len(base)] = "" THEN SubSeq(base, 1, Len(base) - 1) \o path
    ELSE base \o path

absolute_to_mpd_relative(music_dir, absolute_path) ==
    IF ~is_absolute(absolute_path) THEN None
    ELSE LET relative_path == strip_prefix(absolute_path, music_dir)
         IN  IF ~relative_path.some \/ relative_path.v = <<>> THEN None
             ELSE relative_path

\* mpd_relative_to_absolute over text, with the cached music directory.
mpd_relative_to_absolute_in(music_dir, relative_path) ==
    IF relative_path = <<>> THEN None
    ELSE Some(join(music_dir, relative_path))

\* Music roots as a player configuration can write them: "/music",
\* "/music/", "//music", "/music/a", "/".
MusicRoots ==
    {<<"", "music">>, <<"", "music", "">>, <<"", "", "music">>,
     <<"", "music", "a">>, <<"", "">>}

InitPaths ==
    /\ InitCatalogue
    /\ PlainBuild
    /\ InitTracker
    /\ budget = 2
    /\ arg \in [music_dir : MusicRoots, absolute_path : PathStrings]
    /\ res = None
    /\ nops = 0
    /\ last = NoLast

UnchangedPaths ==
    /\ UNCHANGED <<songs, connections, foreign_keys, status_format, budget, arg,
                   idPaths, last>>
    /\ UnchangedTracker

\* absolute_to_mpd_relative(abs)
ToPlayer ==
    /\ nops = 0
    /\ res' = Some([relative |-> absolute_to_mpd_relative(arg.music_dir,
                                                          arg.absolute_path),
                    absolute |-> None])
    /\ nops' = 1
    /\ UnchangedPaths

\* mpd_relative_to_absolute of the relative path just obtained.
ToAbsolute ==
    /\ nops = 1
    /\ res.v.relative.some
    /\ res' = Some([res.v EXCEPT !.absolute =
                      mpd_relative_to_absolute_in(arg.music_dir,
                                                  res.v.relative.v)])
    /\ nops' = 2
    /\ UnchangedPaths

NextPaths == ToPlayer \/ ToAbsolute

SpecPaths == InitPaths /\ [][NextPaths]_vars

\* abs lies strictly under the root: the components of the root are a proper
\* prefix of those of abs.
StrictlyUnder(abs, root) ==
    /\ is_absolute(abs)
    /\ IsPrefix(Components(root), Components(abs))
    /\ Len(Components(root)) < Len(Components(abs))

\* A path written with single separators, no "." segment and no separator
\* at its end.
Normalised(p) == p = <<"", "">> \/ \A i \in 2..Len(p) : p[i] \notin {"", "."}

\* C18: for every absolute path abs strictly under the cached music root,
\* mpd_relative_to_absolute(absolute_to_mpd_relative(abs)) = abs: both
\* conversions succeed and give a path equal to abs, and the same text when
\* abs and the root are written normalised.
C18_PathRoundTrip ==
    StrictlyUnder(arg.absolute_path, arg.music_dir) =>
        /\ nops >= 1 => res.v.relative.some
        /\ nops = 2 =>
             /\ res.v.absolute.some
             /\ PathEq(res.v.absolute.v, arg.absolute_path)
             /\ (Normalised(arg.absolute_path) /\ Normalised(arg.music_dir))
                    => res.v.absolute.v = arg.absolute_path

\* "/music//a/." has gone to "a" and back to "/music/a", a path with the
\* same components.
C18_Witness ==
    /\ nops = 2
    /\ arg.music_dir = <<"", "music">>
    /\ arg.absolute_path = <<"", "music", "", "a", ".">>
    /\ res.v.relative = Some(<<"a">>)
    /\ res.v.absolute = Some(<<"", "music", "a">>)

\* ------------------------------------------------- Thread beside Stream
\* QueueConfig values with exploration switched off.
ZeroConfigs ==
    {[c EXCEPT !.exploration_ratio = 0] : c \in QueueConfigs}

\* A ring like the long catalogue with graded songs, the count of an edge
\* rising with the score of its target: the neighbour with the highest
\* score also has the highest weighted score.
MatchedCatalogue ==
    /\ songs = [i \in 1..LongSongs |-> LongRow(i, "graded")]
    /\ connections = {[id |-> 3 * (i - 1) + d, from_song_id |-> i,
                       to_song_id |-> ((i + d - 1) % LongSongs) + 1,
                       count |-> 1 + ((((i + d - 1) % LongSongs) + 1) % 3)] :
                         i \in 1..LongSongs, d \in 1..3}

InitCompare ==
    /\ \/ SmallCatalogue /\ arg \in [config : ZeroConfigs, seed : {1}]
       \/ LongCatalogue /\ arg \in [config : LongConfigs, seed : {1}]
       \/ MatchedCatalogue /\ arg \in [config : LongConfigs, seed : {1}]
    /\ status_format = "position"
    /\ idPaths = [i \in 1..MaxId |-> IF i \in DOMAIN songs THEN {songs[i].path} ELSE {}]
    /\ PlainBuild
    /\ InitTracker
    /\ budget = 1
    /\ res = None
    /\ nops = 0
    /\ last = NoLast

\* A Thread queue and a Stream queue generated from the same seed and config;
\* walk is the seed followed by the path Thread found, before any padding.
GenerateBoth ==
    /\ res = None
    /\ \E path \in generate_connection_path(songs, connections, arg.seed,
                                            arg.config.max_length - 1) :
       \E walk \in {StartQueue(convert_song_to_queued(songs[arg.seed]), path)} :
       \E thread \in generate_queue_functional(
                        extend_queue_functionally(songs, walk, arg.config),
                        arg.config) :
       \E stream \in generate_queue_functional(
                        StreamGenerate(songs, connections, arg.seed, arg.config),
                        arg.config) :
          res' = Some([walk |-> walk, thread |-> thread, stream |-> stream])
    /\ UNCHANGED <<songs, connections, foreign_keys, status_format, budget, arg,
                   nops, idPaths, last>>
    /\ UnchangedTracker

NextCompare == GenerateBoth

SpecCompare == InitCompare /\ [][NextCompare]_vars

\* The song ids of the first n entries of a queue.
QueueIds(q, n) == {SongIdByPath(songs, q[k].path).v : k \in 1..n}

\* The unvisited neighbours of the song at walk[i].
HopCandidates(walk, i) ==
    {r.to_song_id : r \in {c \in connections :
                              /\ c.from_song_id = SongIdByPath(songs, walk[i].path).v
                              /\ c.to_song_id \in DOMAIN songs
                              /\ c.to_song_id \notin QueueIds(walk, i)}}

\* Every hop of the walk goes to the neighbour whose score is above that of
\* every other unvisited neighbour.
HighestScoredHops(walk) ==
    \A i \in 1..(Len(walk) - 1) :
        \A other \in HopCandidates(walk, i) :
            songs[other].path # walk[i + 1].path
                => calculate_score_functional(songs[other], ScoringContext)
                       < walk[i + 1].score

\* Every song the walk hops from has at least three outgoing edges.
ThreeEdgesAtHops(walk) ==
    \A i \in 1..(Len(walk) - 1) :
        Cardinality({c \in connections :
                        /\ c.from_song_id = SongIdByPath(songs, walk[i].path).v
                        /\ c.to_song_id \in DOMAIN songs}) >= 3

\* The Stream queue begins with the songs of the Thread walk, as far as 30.
StreamFollowsWalk ==
    /\ res.v.stream.ok
    /\ \A i \in 1..Min(Len(res.v.walk), StreamLength) :
          /\ i <= Len(res.v.stream.queue)
          /\ res.v.stream.queue[i] = res.v.walk[i]

\* C19: with exploration_ratio = 0 and a graph in which the best next hop
\* from every song is its highest-scored unvisited neighbour, the Stream
\* queue equals the Thread queue truncated or extended to 30: Stream chooses
\* the same song at every step where Thread has a candidate.
C19_StreamEqualsThread ==
    (res.some /\ HighestScoredHops(res.v.walk)) => StreamFollowsWalk

\* C19, amended: the same where, in addition, every song the Thread walk hops
\* from has at least three outgoing edges; below three Stream takes a random
\* unvisited song.
C19_StreamEqualsThreadOnThreeEdges ==
    (res.some /\ HighestScoredHops(res.v.walk) /\ ThreeEdgesAtHops(res.v.walk))
        => StreamFollowsWalk

\* A Thread walk of twenty songs or more over songs of three edges each,
\* every hop to the highest-scored neighbour, and a Stream queue of 30 that
\* begins with it.
C19_Witness ==
    /\ res.some
    /\ HighestScoredHops(res.v.walk) /\ ThreeEdgesAtHops(res.v.walk)
    /\ Len(res.v.walk) >= 20
    /\ res.v.thread.ok /\ res.v.thread.queue = res.v.walk
    /\ res.v.stream.ok /\ Len(res.v.stream.queue) = StreamLength
    /\ SubSeq(res.v.stream.queue, 1, Len(res.v.walk)) = res.v.walk

\* ------------------------------------------------- starting and stopping
\* Start requests, each with the process it forks.  arg holds the identity
\* file muse-daemon.pid (None while it does not exist), res the state of each
\* process: "idle" before its start request, "forked" once the request has
\* found no valid identity file, "refused" when it has, "monitoring" in the
\* event loop, "exited" after the loop or a failed sync, "killed" by stop.
MaxTrackers == 3
Pids == 1..MaxTrackers

\* kill -0 pid succeeds for a process that exists.
Alive(proc, pid) == proc[pid] \in {"forked", "monitoring"}

\* is_daemon_running: the file exists and names a process that exists.
is_daemon_running(file, proc) == file.some /\ Alive(proc, file.v)

InitSupervisor ==
    /\ InitCatalogue
    /\ PlainBuild
    /\ InitTracker
    /\ budget = MaxTrackers
    /\ arg = None
    /\ res = [p \in Pids |-> "idle"]
    /\ nops = 0
    /\ last = NoLast

UnchangedSupervisor ==
    /\ UNCHANGED <<songs, connections, foreign_keys, status_format, budget,
                   nops, idPaths, last>>
    /\ UnchangedTracker

\* start: with a valid identity file report "already running", otherwise
\* fork into the background.
StartCheck(p) ==
    /\ res[p] = "idle"
    /\ res' = [res EXCEPT ![p] = IF is_daemon_running(arg, res) THEN "refused"
                                 ELSE "forked"]
    /\ arg' = arg
    /\ UnchangedSupervisor

\* start_monitoring up to the event loop: write the process id to the file,
\* then sync_current_state, whose error ends the function with the file left.
StartMonitoring(p, sync_ok) ==
    /\ res[p] = "forked"
    /\ arg' = Some(p)
    /\ res' = [res EXCEPT ![p] = IF sync_ok THEN "monitoring" ELSE "exited"]
    /\ UnchangedSupervisor

\* The event loop ends on "connection refused": remove the file and return.
ConnectionLost(p) ==
    /\ res[p] = "monitoring"
    /\ arg' = None
    /\ res' = [res EXCEPT ![p] = "exited"]
    /\ UnchangedSupervisor

\* stop_daemon: without the file an error; otherwise run kill -TERM on the
\* process the file names and remove the file.  Only a kill that cannot be
\* run is an error (the file stays); the exit status of kill is not looked
\* at.  last records the call: the file it found, whether kill ran, whether
\* the signal reached a process, and the result.
stop_daemon(kill_runs) ==
    /\ last' = [op |-> "stop", file |-> arg, ran |-> arg.some /\ kill_runs,
                signalled |-> arg.some /\ kill_runs /\ Alive(res, arg.v),
                ok |-> arg.some /\ kill_runs]
    /\ res' = IF arg.some /\ kill_runs /\ Alive(res, arg.v)
              THEN [res EXCEPT ![arg.v] = "killed"] ELSE res
    /\ arg' = IF arg.some /\ kill_runs THEN None ELSE arg
    /\ UNCHANGED <<songs, connections, foreign_keys, status_format, budget,
                   nops, idPaths>>
    /\ UnchangedTracker

NextSupervisor ==
    \/ \E p \in Pids : StartCheck(p)
    \/ \E p \in Pids, sync_ok \in BOOLEAN : StartMonitoring(p, sync_ok)
    \/ \E p \in Pids : ConnectionLost(p)
    \/ \E kill_runs \in BOOLEAN : stop_daemon(kill_runs)

SpecSupervisor == InitSupervisor /\ [][NextSupervisor]_vars

\* C20: at most one tracker is monitoring at any time, and while a tracker is
\* monitoring the identity file holds that tracker's process id: no second
\* start overwrites it and no exiting tracker removes it.
C20_SingleTracker ==
    /\ Cardinality({p \in Pids : res[p] = "monitoring"}) <= 1
    /\ \A p \in Pids : res[p] = "monitoring" => arg = Some(p)

\* C21: daemon stop signals the recorded process and removes the identity
\* file; it returns an error when no identity file exists and when
\* signalling the process fails, as for a recorded pid that is not a live
\* process.
C21_StopReportsFailure ==
    last.op = "stop" =>
        /\ last.ok <=> (last.file.some /\ last.signalled)
        /\ last.ok => arg = None

\* ------------------------------------------------- loading a queue
MaxLoad == 2

\* Paths a queue may hold: the two catalogued songs and a file outside the
\* music directory that the catalogue does not know.
LoadPaths == {<<MusicDir, "a">>, <<MusicDir, "b">>, <<"other", "x">>}

\* Positions of a queue.
QueuePositions(queue) == 1..Len(queue)

\* track_song_touches giving up at the first failed update.
RECURSIVE track_song_touches_Abort(_, _, _, _)
track_song_touches_Abort(sgs, queue, i, bump_fails) ==
    IF i > Len(queue) THEN sgs
    ELSE LET song_id == SongIdByPath(sgs, queue[i])
         IN  IF song_id.some /\ i \in bump_fails THEN sgs
             ELSE track_song_touches_Abort(
                     IF song_id.some
                     THEN update_song_stats(sgs, song_id.v, TRUE, FALSE, FALSE)
                     ELSE sgs,
                     queue, i + 1, bump_fails)

\* The loop of track_song_touches from position i: a song the catalogue
\* lacks and an update that fails are logged and passed over.
RECURSIVE track_song_touches(_, _, _, _)
track_song_touches(sgs, queue, i, bump_fails) ==
    IF i > Len(queue) THEN sgs
    ELSE LET song_id == SongIdByPath(sgs, queue[i])
         IN  track_song_touches(
                 IF song_id.some /\ i \notin bump_fails
                 THEN update_song_stats(sgs, song_id.v, TRUE, FALSE, FALSE)
                 ELSE sgs,
                 queue, i + 1, bump_fails)

\* The positions load_queue adds to the player: the path translates and
\* mpc add succeeds.
AddedPositions(queue, add_fails) ==
    {i \in QueuePositions(queue) :
        /\ absolute_to_mpd_relative(<<"", MusicDir>>, <<"">> \o queue[i]).some
        /\ i \notin add_fails}

\* load_queue: the result, the songs table after it and the commands and
\* updates it issued, in order.  f holds what fails: the connection to the
\* player, mpc add at some positions, the database connection of
\* track_song_touches, its update at some positions, mpc play.
load_queue(sgs, queue, f) ==
    LET added == AddedPositions(queue, f.add_fails)
        touched == IF f.db_conn THEN track_song_touches(sgs, queue, 1, f.bump_fails)
                   ELSE sgs
    IN  IF queue = << >> \/ ~f.connect
        THEN [ok |-> FALSE, songs |-> sgs, events |-> << >>]
        ELSE IF added = {}
        THEN [ok |-> FALSE, songs |-> sgs, events |-> <<"clear">>]
        ELSE [ok |-> f.play_ok, songs |-> touched,
              events |-> <<"clear", "add", "touches", "play">>]

InitLoad ==
    /\ InitCatalogue
    /\ PlainBuild
    /\ InitTracker
    /\ budget = 1
    /\ arg \in UNION {[1..n -> LoadPaths] : n \in 0..MaxLoad}
    /\ res = None
    /\ nops = 0
    /\ last = NoLast

\* One call load_queue(arg); res keeps the table as it was and what failed.
LoadQueue(f) ==
    /\ res = None
    /\ f.add_fails \subseteq QueuePositions(arg)
    /\ f.bump_fails \subseteq QueuePositions(arg)
    /\ \E out \in {load_queue(songs, arg, f)} :
          /\ songs' = out.songs
          /\ res' = Some([ok |-> out.ok, events |-> out.events,
                          before |-> songs, faults |-> f])
    /\ UNCHANGED <<connections, foreign_keys, status_format, budget, arg,
                   nops, idPaths, last>>
    /\ UnchangedTracker

NextLoad ==
    \E f \in [connect : BOOLEAN, add_fails : SUBSET (1..MaxLoad),
              db_conn : BOOLEAN, bump_fails : SUBSET (1..MaxLoad),
              play_ok : BOOLEAN] : LoadQueue(f)

SpecLoad == InitLoad /\ [][NextLoad]_vars

\* The positions of the queue that hold the path of song id and whose update
\* did not fail.
BumpedPositions(id) ==
    {i \in QueuePositions(arg) :
        /\ arg[i] = res.v.before[id].path
        /\ res.v.faults.db_conn
        /\ i \notin res.v.faults.bump_fails}

IndexOf(events, e) == CHOOSE i \in DOMAIN events : events[i] = e

InitSkip ==
    /\ InitCatalogue
    /\ PlainBuild
    /\ InitTracker
    /\ budget = MaxCmdOps
    /\ arg \in Players
    /\ res = None
    /\ nops = 0
    /\ last = NoLast

NextSkip == \E fault \in CmdFaults : CmdSkip(arg, fault)

SpecSkip == InitSkip /\ [][NextSkip]_vars

\* C23: `muse skip` with a catalogued song current adds 1 to that song's
\* skips whatever the elapsed/duration ratio, adds nothing to its listens,
\* records no edge and touches no other song.
C23_SkipAlwaysSkips ==
    [][\A fault \in CmdFaults :
          (/\ CmdSkip(arg, fault)
           /\ arg.cur # ""
           /\ SongIdByPath(songs, <<MusicDir, arg.cur>>).some)
          => LET id == SongIdByPath(songs, <<MusicDir, arg.cur>>).v
             IN  /\ fault \in {"none", "restatus"} => last'.ok
                 /\ last'.ok => songs' = [songs EXCEPT ![id].skips = @ + 1]
                 /\ ~last'.ok => songs' = songs
                 /\ connections' = connections]_vars

\* Song a was skipped at the end of its play time: a skip and no listen, no
\* edge, song b untouched.
C23_Witness ==
    /\ last.op = "skip" /\ last.ok
    /\ arg = [state |-> "play", cur |-> "a", elapsed |-> SongSecs]
    /\ songs[1].skips = 1 /\ songs[1].listens = 0
    /\ songs[2].touches = 0
    /\ connections = {}

\* ------------------------------------------- the order of a finalization
\* The tracker step ran handle_song_ended on the state it held.
RanFinalization == last'.n # last.n /\ last'.op = "event" /\ last'.final.some

\* C24: a finalization that records a transition has counted the listen of
\* its song in the same run; one that stops between the two statements
\* leaves the listen counted and the transitions as they were; and a new
\* PlayingState is created only after the finalization of the one before it
\* has returned Ok with its listen or skip counted.
C24_ListenBeforeEdge ==
    [][RanFinalization =>
         LET id == last'.final.v.song_id
             f == last'.final.v
         IN  /\ connections' # connections =>
                    /\ f.listened
                    /\ songs'[id].listens = songs[id].listens + 1
             /\ (f.listened /\ f.bumped /\ ~f.ok) =>
                    /\ songs'[id].listens = songs[id].listens + 1
                    /\ connections' = connections
             /\ nEp' # nEp =>
                    /\ f.ok
                    /\ songs'[id].listens + songs'[id].skips
                         = songs[id].listens + songs[id].skips + 1]_vars

\* C24's case: a finalization of a listened song whose next song is known
\* stopped at update_connection: the listen is counted, no transition is.
C24_Witness ==
    /\ last.op = "event" /\ last.final.some
    /\ last.final.v.listened /\ last.final.v.bumped /\ ~last.final.v.ok
    /\ songs[last.final.v.song_id].listens = 1
    /\ connections = {}
    /\ current_state.some /\ current_state.v.song_id = last.final.v.song_id

\* C25: after a player event whose status is Play of a file that is not the
\* tracked one and is not in the catalogue, nothing failing, the tracker
\* holds no PlayingState.
C25_UnknownSongClearsState ==
    [][\A pl \in Playing :
          LET status == get_mpd_status(StatusOutput(pl))
          IN  (/\ TrackerEvent(pl, "none")
               /\ status.state = "play" /\ status.current_song.some
               /\ current_state.some =>
                      current_state.v.mpd_path # status.current_song.v
               /\ ~SongIdByPath(songs,
                      mpd_relative_to_absolute(status.current_song.v).v).some)
              => current_state' = None]_vars

\* C26: a PlayingState created by a player event whose Play status reports
\* the position e starts e seconds in the past (its age, the time since
\* start_time, is e), has touches_tracked false and the status's duration.
C26_StartAtElapsed ==
    [][\A pl \in Playing, fault \in Faults :
          LET status == get_mpd_status(StatusOutput(pl))
          IN  (TrackerEvent(pl, fault) /\ nEp' # nEp)
              => /\ current_state'.some
                 /\ ~current_state'.v.touches_tracked
                 /\ current_state'.v.duration = status.duration
                 /\ age' = status.elapsed]_vars

\* C27: a player event with status Play of the tracked song, its touch not
\* yet counted and nothing failing, adds 1 to the song's touches and sets
\* touches_tracked when elapsed is 3 s or more, and changes neither when
\* elapsed is less.
C27_TouchFromThreeSeconds ==
    [][\A pl \in Playing :
          LET status == get_mpd_status(StatusOutput(pl))
          IN  (/\ TrackerEvent(pl, "none")
               /\ status.state = "play"
               /\ current_state.some
               /\ status.current_song = Some(current_state.v.mpd_path)
               /\ ~current_state.v.touches_tracked)
              => LET id == current_state.v.song_id
                 IN  IF status.elapsed >= TouchAfterSecs
                     THEN /\ songs'[id].touches = songs[id].touches + 1
                          /\ current_state'.some
                          /\ current_state'.v.touches_tracked
                     ELSE /\ songs' = songs
                          /\ current_state' = current_state]_vars

\* C28: when the tracker finalizes an episode that has lasted more than 3 s,
\* it has counted a touch for that episode.
C28_TouchedByFinalization ==
    [][(/\ last'.n # last.n
        /\ last'.final.some /\ last'.final.v.bumped
        /\ age > TouchAfterSecs)
       => epTouches'[last'.ep] >= 1]_vars

\* ------------------------------------------------- the tracker on a player
\* The tracker beside one player whose position is followed: arg is the
\* player (its state, its file, the position in it, and whether the file
\* has been paused since it began), age is the wall-clock time since the
\* held state's start_time.
Stopped == [state |-> "stop", cur |-> "", elapsed |-> 0, paused |-> FALSE]
FromStart(f) == [state |-> "play", cur |-> f, elapsed |-> 0, paused |-> FALSE]

InitPause ==
    /\ InitCatalogue
    /\ PlainBuild
    /\ InitTracker
    /\ budget = MaxOps
    /\ arg \in {Stopped} \cup {FromStart(f) : f \in RelPaths}
    /\ res = None
    /\ nops = 0
    /\ last = NoLast

\* What the listener can make the player do: play another file from its
\* start, pause, resume, stop.  Each raises one `player` event.
PlayerMoves(pl) ==
    {FromStart(f) : f \in RelPaths \ {pl.cur}}
      \cup (IF pl.state = "play"
            THEN {[pl EXCEPT !.state = "pause", !.paused = TRUE]} ELSE {})
      \cup (IF pl.state = "pause" THEN {[pl EXCEPT !.state = "play"]} ELSE {})
      \cup (IF pl.state # "stop" THEN {Stopped} ELSE {})

\* One second passes: the position advances while the player plays, and
\* Instant::now() advances in any case.
PlayerClock ==
    /\ running
    /\ \/ arg.state = "play" /\ arg.elapsed < SongSecs
       \/ arg.state = "pause" /\ current_state.some /\ age < MaxAge
    /\ arg' = IF arg.state = "play" THEN [arg EXCEPT !.elapsed = @ + 1] ELSE arg
    /\ age' = IF current_state.some THEN Min(age + 1, MaxAge) ELSE age
    /\ UNCHANGED <<songs, connections, foreign_keys, status_format, budget, res,
                   current_state, running, nops, idPaths, nEp, finalCount,
                   epTouches, last>>

\* The player moves to pl and wait_for_events runs handle_player_event on
\* the status it then reports.
PlayerEvent(pl) ==
    /\ running /\ nops < budget
    /\ pl \in PlayerMoves(arg)
    /\ arg' = pl
    /\ nops' = nops + 1
    /\ \E out \in {handle_player_event(current_state, age, StatusOutput(pl),
                                       songs, connections, foreign_keys, "none")} :
          TrackHistory(out, "event", Some(get_mpd_status(StatusOutput(pl))))
    /\ UNCHANGED <<foreign_keys, status_format, budget, res, idPaths, running>>

NextPause ==
    \/ TrackerStart(arg, "none")
    \/ PlayerClock
    \/ \E pl \in PlayerMoves(arg) : PlayerEvent(pl)

SpecPause == InitPause /\ [][NextPause]_vars

\* C29: the finalization of an episode whose song has been paused and is
\* left at a position of at most 80% of its length counts a skip.
C29_PausedTimeNotPlayed ==
    [][(/\ last'.n # last.n
        /\ last'.final.some /\ last'.final.v.bumped
        /\ current_state.some /\ arg.cur = current_state.v.mpd_path
        /\ arg.paused
        /\ arg.elapsed * ListenRatioDen <= SongSecs * ListenRatioNum)
       => ~last'.final.v.listened]_vars

\* C30: a tracker finalization that counts a listen, nothing failing,
\* records the transition to the song n that the next path names and adds 1
\* to n's touches when that path is in the catalogue, and changes neither
\* the transitions nor any touches when there is no next path or it is not
\* in the catalogue.
C30_TransitionTouchesNext ==
    [][\A pl \in Players :
          (/\ TrackerEvent(pl, "none")
           /\ last'.final.some /\ last'.final.v.listened)
          => LET status == get_mpd_status(StatusOutput(pl))
                 next == IF status.state = "play" /\ status.current_song.some
                         THEN mpd_relative_to_absolute(status.current_song.v)
                         ELSE None
                 n == IF next.some THEN SongIdByPath(songs, next.v) ELSE None
                 id == last'.final.v.song_id
             IN  IF n.some
                 THEN /\ connections' = update_connection(connections, id, n.v)
                      /\ songs'[n.v].touches = songs[n.v].touches + 1
                 ELSE /\ connections' = connections
                      /\ \A i \in DOMAIN songs :
                            songs'[i].touches = songs[i].touches]_vars

\* ------------------------------------------------------- tracker start-up
\* C31: start_monitoring with nothing failing, on a player in Play on a
\* catalogued song at position e, enters a PlayingState that began e seconds
\* ago, with touches_tracked set when e > 3 s; on any other player it
\* enters no state; in both cases it goes on to its event loop.
C31_StartupReconciliation ==
    [][\A pl \in Players :
          TrackerStart(pl, "none")
          => LET status == get_mpd_status(StatusOutput(pl))
                 known == /\ status.state = "play" /\ status.current_song.some
                          /\ SongIdByPath(songs,
                               mpd_relative_to_absolute(status.current_song.v).v).some
             IN  /\ running'
                 /\ IF known
                    THEN /\ current_state'.some
                         /\ current_state'.v.mpd_path = status.current_song.v
                         /\ age' = status.elapsed
                         /\ status.elapsed > TouchAfterSecs
                              => current_state'.v.touches_tracked
                    ELSE current_state' = None]_vars

\* ---------------------------------------------------------- the event loop
\* start_monitoring's loop in one tracker process: res is where the process
\* is ("loop", "sleep" or "done") and the seconds it has slept, arg the
\* identity file, last the result of the latest wait_for_events.
MaxIterations == 5

\* Error texts as words; the first four are the tracker's own, the others
\* are what a failing call below it may say.
ErrorTexts ==
    { <<"Failed", "to", "start", "mpc", "idle">>,
      <<"Failed", "to", "read", "mpc", "idle", "output">>,
      <<"Failed", "to", "get", "MPD", "status">>,
      <<"MPD", "status", "command", "failed">>,
      <<"Connection", "refused", "(os", "error", "111)">>,
      <<"mpd:", "connection", "refused">>,
      <<"connection", "was", "refused">> }

\* str::contains on texts of words.
Contains(text, pat) ==
    \E k \in 0..(Len(text) - Len(pat)) :
        \A j \in 1..Len(pat) : text[k + j] = pat[j]

IterationResults == {None} \cup {Some(t) : t \in ErrorTexts}

\* A loop that gives up on every error.
loop_arm_BreakOnAny(result) ==
    IF ~result.some THEN "loop" ELSE "done"

\* The match on wait_for_events(): where the process goes next.
loop_arm(result) ==
    IF ~result.some THEN "loop"
    ELSE IF Contains(result.v, <<"connection", "refused">>) THEN "done"
    ELSE "sleep"

InitLoop ==
    /\ InitCatalogue
    /\ PlainBuild
    /\ InitTracker
    /\ budget = MaxIterations
    /\ arg = Some(1)
    /\ res = [pc |-> "loop", slept |-> 0]
    /\ nops = 0
    /\ last = [op |-> "init", result |-> None]

\* One wait_for_events() and the match on its result; leaving the loop
\* removes the identity file and returns.
LoopIteration(result) ==
    /\ res.pc = "loop" /\ nops < budget
    /\ nops' = nops + 1
    /\ res' = [res EXCEPT !.pc = loop_arm(result)]
    /\ arg' = IF loop_arm(result) = "done" THEN None ELSE arg
    /\ last' = [op |-> "wait", result |-> result]
    /\ UNCHANGED <<songs, connections, foreign_keys, status_format, budget, idPaths>>
    /\ UnchangedTracker

\* std::thread::sleep(Duration::from_secs(1)), then the next iteration.
LoopSleep ==
    /\ res.pc = "sleep"
    /\ res' = [pc |-> "loop", slept |-> res.slept + 1]
    /\ last' = [op |-> "sleep", result |-> last.result]
    /\ UNCHANGED <<songs, connections, foreign_keys, status_format, budget, arg,
                   nops, idPaths>>
    /\ UnchangedTracker

NextLoop ==
    \/ \E result \in IterationResults : LoopIteration(result)
    \/ LoopSleep

SpecLoop == InitLoop /\ [][NextLoop]_vars

\* C32: the loop ends only in an iteration whose error says "connection
\* refused", and the identity file is then removed; after any other error
\* the process sleeps 1 s and then iterates again; after a successful
\* iteration it iterates again at once.
C32_LoopEndsOnlyOnRefused ==
    [][/\ res'.pc = "done" /\ res.pc # "done"
          => /\ last'.op = "wait" /\ last'.result.some
             /\ Contains(last'.result.v, <<"connection", "refused">>)
             /\ arg' = None
       /\ (last'.op = "wait" /\ last'.result.some
              /\ ~Contains(last'.result.v, <<"connection", "refused">>))
          => res'.pc = "sleep" /\ res'.slept = res.slept /\ arg' = arg
       /\ res.pc = "sleep"
          => res'.pc = "loop" /\ res'.slept = res.slept + 1 /\ arg' = arg
       /\ (last'.op = "wait" /\ ~last'.result.some)
          => res'.pc = "loop" /\ res'.slept = res.slept /\ arg' = arg]_vars

\* C32's case: the loop has gone on after an error that names a refused
\* connection in other words, has slept for it, and has then ended on
\* "connection refused" with the file removed.
C32_Witness ==
    /\ res.pc = "done" /\ res.slept >= 1 /\ nops >= 3
    /\ arg = None
    /\ last.result = Some(<<"mpd:", "connection", "refused">>)

\* ------------------------------------------------- the rule of `muse next`
\* `muse next` on a player that plays song a, the status reporting any
\* position and duration, and moves on to song b.
InitNextRule ==
    /\ InitCatalogue
    /\ PlainBuild
    /\ InitTracker
    /\ budget = 1
    /\ arg \in [played : 0..MaxPlayed, duration : Durations]
    /\ res = None
    /\ nops = 0
    /\ last = NoLast

NextRuleStatus ==
    [current_song |-> Some("a"), elapsed |-> arg.played,
     duration |-> arg.duration, state |-> "play"]

\* next_with_tracking on that status, nothing failing.
ClassifyNext ==
    /\ res = None
    /\ \E r \in {next_with_tracking(NextRuleStatus,
                     StatusOutput([state |-> "play", cur |-> "b", elapsed |-> 0]),
                     songs, connections, foreign_keys, "none")} :
          /\ res' = Some(WasNaturalListen(NextRuleStatus))
          /\ songs' = r.songs
          /\ connections' = r.conns
    /\ UNCHANGED <<foreign_keys, status_format, budget, arg, nops, idPaths, last>>
    /\ UnchangedTracker

NextNextRule == ClassifyNext

SpecNextRule == InitNextRule /\ [][NextNextRule]_vars

\* C33 as stated: `muse next` counts a listen iff the tracker's rule does:
\* more than 0.8 of a known duration, or at least 30 s of an unknown one.
C33_NextSameRule ==
    res.some =>
        /\ res.v = Listen(arg.played, arg.duration)
        /\ songs[1].listens = (IF res.v THEN 1 ELSE 0)
        /\ songs[1].skips = (IF res.v THEN 0 ELSE 1)

\* C33 amended: `muse next` counts a listen iff the duration is known and
\* more than 0.8 of it has elapsed, and a skip otherwise: with a known
\* duration it agrees with the tracker's rule, with an unknown one it counts
\* a skip whatever the position.
C33_NextRuleKnownDuration ==
    res.some =>
        /\ res.v = (arg.duration.some /\ 5 * arg.played > 4 * arg.duration.v)
        /\ arg.duration.some => res.v = WasListened(arg.played, arg.duration)
        /\ ~arg.duration.some => ~res.v
        /\ songs[1].listens = (IF res.v THEN 1 ELSE 0)
        /\ songs[1].skips = (IF res.v THEN 0 ELSE 1)

\* C33's case: 45 s into a song of unknown duration, `muse next` has counted
\* a skip.
C33_Witness ==
    /\ res = Some(FALSE)
    /\ arg = [played |-> 45, duration |-> None]
    /\ songs[1].skips = 1 /\ songs[1].listens = 0

\* C34: `muse next` on a player whose current song is in the catalogue,
\* nothing failing, succeeds and adds 1 to exactly one of that song's
\* listens and skips, whatever file, if any, the player moves on to.
C34_NextAlwaysCounts ==
    [][\A pl \in Players : \A nxt \in NextFiles(pl) :
          LET before == get_mpd_status(StatusOutput(pl))
              id == SongIdByPath(songs, mpd_relative_to_absolute(before.current_song.v).v)
          IN  (/\ CmdNext(pl, nxt, "none")
               /\ before.current_song.some
               /\ id.some)
              => /\ last'.ok
                 /\ <<songs'[id.v].listens - songs[id.v].listens,
                      songs'[id.v].skips - songs[id.v].skips>>
                       \in {<<1, 0>>, <<0, 1>>}]_vars

\* ------------------------------------- a command while the tracker follows
\* The tracker and a foreground `muse next` or `muse skip` on one player:
\* the command counts the current song and moves the player on, and the
\* `player` event this raises reaches the tracker afterwards.  res keeps the
\* counters of the song as they were before the command, and whether the
\* tracker has handled the event yet.
InitBoth ==
    /\ InitCatalogue
    /\ PlainBuild
    /\ InitTracker
    /\ budget = MaxOps
    /\ arg \in {FromStart("a"), FromStart("b")}
    /\ res = None
    /\ nops = 0
    /\ last = NoLast

\* The player after `mpc next`.
MovedOn(pl, nxt) ==
    IF nxt = "" THEN Stopped ELSE FromStart(nxt)

\* next_with_tracking or skip_with_tracking on the song the tracker holds.
CommandEnds(op, nxt) ==
    /\ running /\ res = None /\ nops < budget
    /\ current_state.some
    /\ arg.state = "play" /\ arg.cur = current_state.v.mpd_path
    /\ nxt \in (RelPaths \ {arg.cur}) \cup {""}
    /\ \E before \in {get_mpd_status(StatusOutput(arg))} :
       \E r \in {IF op = "next"
                 THEN next_with_tracking(before, StatusOutput(MovedOn(arg, nxt)),
                                         songs, connections, foreign_keys, "none")
                 ELSE skip_with_tracking(before, songs, connections, "none")} :
          /\ songs' = r.songs
          /\ connections' = r.conns
          /\ last' = [n |-> nops + 1, op |-> op, ok |-> r.ok, again |-> FALSE,
                      final |-> None, touched |-> FALSE,
                      cmd |-> Some([file |-> before.current_song,
                                    listened |-> op = "next" /\ WasNaturalListen(before),
                                    moved |-> TRUE]),
                      edge |-> r.edge, ep |-> 0]
    /\ res' = Some([id |-> current_state.v.song_id,
                    listens |-> songs[current_state.v.song_id].listens,
                    skips |-> songs[current_state.v.song_id].skips,
                    handled |-> FALSE])
    /\ arg' = MovedOn(arg, nxt)
    /\ nops' = nops + 1
    /\ UNCHANGED <<foreign_keys, status_format, budget, idPaths>>
    /\ UnchangedTracker

\* wait_for_events reads the `player` line the move raised and runs
\* handle_player_event.
EventAfterCommand ==
    /\ running /\ res.some /\ ~res.v.handled
    /\ res' = Some([res.v EXCEPT !.handled = TRUE])
    /\ nops' = nops + 1
    /\ \E out \in {handle_player_event(current_state, age, StatusOutput(arg),
                                       songs, connections, foreign_keys, "none")} :
          TrackHistory(out, "event", Some(get_mpd_status(StatusOutput(arg))))
    /\ UNCHANGED <<foreign_keys, status_format, budget, arg, idPaths, running>>

NextBoth ==
    \/ TrackerStart(arg, "none")
    \/ PlayerClock
    \/ \E op \in {"next", "skip"}, nxt \in RelPaths \cup {""} : CommandEnds(op, nxt)
    \/ EventAfterCommand

SpecBoth == InitBoth /\ [][NextBoth]_vars

\* C35: once the command has run and the tracker has handled the event of
\* the move, the song's listens and skips have gone up by exactly 1 between
\* them.
C35_CountedOnceAcrossProcesses ==
    (res.some /\ res.v.handled) =>
        (songs[res.v.id].listens - res.v.listens)
          + (songs[res.v.id].skips - res.v.skips) = 1

\* ------------------------------------------------- the choice of each hop
\* The id of the song a queue entry names.
IdOfEntry(entry) == CHOOSE i \in DOMAIN songs : songs[i].path = entry.path

\* The weight the walk gives to edge r.
EdgeWeight(r) ==
    apply_connection_weight_advanced(
        calculate_score_functional(songs[r.to_song_id], ScoringContext), r.count)

\* C36: every song of a walk is, among the edges out of the song before it
\* whose target had not been visited, a target of the greatest weight, and
\* of the targets of that weight the one with the lowest id.
C36_WalkChoosesMaxLowestId ==
    res.some =>
        \A i \in DOMAIN res.v.path :
            LET current_id == IF i = 1 THEN res.v.start_id
                              ELSE IdOfEntry(res.v.path[i - 1])
                visited == {res.v.start_id}
                             \cup {IdOfEntry(res.v.path[j]) : j \in 1..(i - 1)}
                rows == {r \in connections :
                            /\ r.from_song_id = current_id
                            /\ r.to_song_id \in DOMAIN songs \ visited}
                chosen == IdOfEntry(res.v.path[i])
            IN  \E r \in rows :
                    /\ r.to_song_id = chosen
                    /\ \A q \in rows :
                           /\ EdgeWeight(q) <= EdgeWeight(r)
                           /\ EdgeWeight(q) = EdgeWeight(r) => chosen <= q.to_song_id

\* ------------------------------------------------------------ the padding
\* C37: a Thread queue, whose songs before the padding are the seed and a
\* walk that visits no song twice, holds no song twice after the padding,
\* and generation fails only when the catalogue has fewer songs than
\* min_length asks for.
C37_PaddingAddsNewSongs ==
    (res.some /\ res.v.strategy = "thread") =>
        /\ res.v.ok =>
               \A i, j \in DOMAIN res.v.queue :
                   i # j => res.v.queue[i].path # res.v.queue[j].path
        /\ ~res.v.ok => Cardinality(DOMAIN songs) < arg.config.min_length

\* ------------------------------------------------ the songs of two walks
\* C38: what the walks of a Current queue for seed 1 add to it holds neither
\* the seed nor any song twice, so that the queue, the seed followed by the
\* interleaved paths, holds every song once.
C38_CurrentNoRepeats ==
    (res.some /\ ~arg.some) =>
        /\ \A i \in DOMAIN res.v.body : res.v.body[i].path # songs[1].path
        /\ \A i, j \in DOMAIN res.v.body :
               i # j => res.v.body[i].path # res.v.body[j].path

\* ------------------------------------------------------ one step of Stream
\* One call of select_next_song_probabilistically from song 1 of the small
\* catalogue, for every visited set that holds song 1 and every ratio of
\* never, sometimes and always exploring.
InitStep ==
    /\ SmallCatalogue
    /\ arg \in [visited : {v \in SUBSET (1..4) : 1 \in v}, ratio : {0, 3, 10}]
    /\ status_format = "position"
    /\ idPaths = [i \in 1..MaxId |-> IF i \in DOMAIN songs THEN {songs[i].path} ELSE {}]
    /\ PlainBuild
    /\ InitTracker
    /\ budget = 1
    /\ res = None
    /\ nops = 0
    /\ last = NoLast

SelectStep ==
    /\ res = None
    /\ \E next_song \in select_next_song_probabilistically(
                            songs, connections, 1, arg.visited, arg.ratio) :
          res' = Some(next_song)
    /\ UNCHANGED <<songs, connections, foreign_keys, status_format, budget, arg,
                   nops, idPaths, last>>
    /\ UnchangedTracker

NextStep == SelectStep

SpecStep == InitStep /\ [][NextStep]_vars

\* The edges out of song 1 whose target has not been visited.
UnvisitedCandidates ==
    {r \in connections : r.from_song_id = 1 /\ r.to_song_id \notin arg.visited}

\* C39: the step yields a song only when at least 3 edges out of the tail
\* lead to unvisited songs, and the song is then the target of one of them;
\* with fewer it yields None.
C39_ThreeUnvisitedCandidates ==
    res.some =>
        IF Cardinality(UnvisitedCandidates) >= 3
        THEN res.v.some /\ \E r \in UnvisitedCandidates : r.to_song_id = res.v.v
        ELSE ~res.v.some

\* ------------------------------------------------------- the cached root
\* One process and its MUSIC_DIR: res is the OnceLock (None until set), last
\* the latest call with what mpd_config detected for it, its result and the
\* root it used, arg the latest initialize() made while a root was cached.
\* Detection may fail and may find another root on every call.
MaxRootCalls == 3

Detections == {None} \cup {Some(d) : d \in MusicRoots}
Translated == {<<"", "music", "a">>, <<"", "music", "a", "a">>, <<"", "a">>}

\* An initialize that replaces the cached root by the one it detects.
initialize_Replaces(cached, detected) ==
    IF ~detected.some THEN [ok |-> FALSE, cached |-> cached]
    ELSE [ok |-> TRUE, cached |-> detected]

\* path_translator::initialize: OnceLock::set, and on Err the comparison of
\* the two PathBufs.
initialize(cached, detected) ==
    IF ~detected.some THEN [ok |-> FALSE, cached |-> cached]
    ELSE IF ~cached.some THEN [ok |-> TRUE, cached |-> detected]
    ELSE [ok |-> PathEq(cached.v, detected.v), cached |-> cached]

\* path_translator::get_music_directory: the cached root, or the detected
\* one, which it caches.
get_music_directory(cached, detected) ==
    IF cached.some THEN [ok |-> TRUE, cached |-> cached]
    ELSE IF ~detected.some THEN [ok |-> FALSE, cached |-> cached]
    ELSE [ok |-> TRUE, cached |-> detected]

InitRoot ==
    /\ InitCatalogue
    /\ PlainBuild
    /\ InitTracker
    /\ budget = MaxRootCalls
    /\ arg = None
    /\ res = None
    /\ nops = 0
    /\ last = [op |-> "init", detected |-> None, ok |-> TRUE, path |-> <<>>,
               root |-> None, out |-> None]

UnchangedRoot ==
    /\ UNCHANGED <<songs, connections, foreign_keys, status_format, budget,
                   idPaths>>
    /\ UnchangedTracker

\* A call of initialize() when mpd_config detects `detected`.
Initialize(detected) ==
    /\ nops < budget
    /\ nops' = nops + 1
    /\ \E r \in {initialize(res, detected)} :
          /\ res' = r.cached
          /\ last' = [op |-> "initialize", detected |-> detected, ok |-> r.ok,
                      path |-> <<>>, root |-> None, out |-> None]
          /\ arg' = IF res.some THEN Some([detected |-> detected, ok |-> r.ok])
                    ELSE arg
    /\ UnchangedRoot

\* A call of absolute_to_mpd_relative(path) when mpd_config would detect
\* `detected`.
Translate(detected, path) ==
    /\ nops < budget
    /\ nops' = nops + 1
    /\ \E g \in {get_music_directory(res, detected)} :
          /\ res' = g.cached
          /\ arg' = arg
          /\ last' = [op |-> "translate", detected |-> detected, ok |-> g.ok,
                      path |-> path,
                      root |-> IF g.ok THEN g.cached ELSE None,
                      out |-> IF g.ok
                              THEN absolute_to_mpd_relative(g.cached.v, path)
                              ELSE None]
    /\ UnchangedRoot

NextRoot ==
    \/ \E detected \in Detections : Initialize(detected)
    \/ \E detected \in Detections, path \in Translated : Translate(detected, path)

SpecRoot == InitRoot /\ [][NextRoot]_vars

\* C40: a cached root never changes; an initialize() that detects another
\* root while one is cached fails, one that detects the same root succeeds;
\* and a translation made while a root is cached uses that root, whatever
\* would be detected then.
C40_CachedRootNeverChanges ==
    [][res.some =>
         /\ res' = res
         /\ (last'.op = "initialize" /\ last'.detected.some)
               => (last'.ok <=> PathEq(last'.detected.v, res.v))
         /\ last'.op = "translate"
               => /\ last'.ok
                  /\ last'.root = res
                  /\ last'.out = absolute_to_mpd_relative(res.v, last'.path)]_vars

\* C40's case: with /music cached, an initialize() that detected /music/a
\* was refused, and a translation made after it, /music/a being detected
\* still, has used /music.
C40_Witness ==
    /\ res = Some(<<"", "music">>)
    /\ arg = Some([detected |-> Some(<<"", "music", "a">>), ok |-> FALSE])
    /\ last.op = "translate" /\ last.detected = Some(<<"", "music", "a">>)
    /\ last.path = <<"", "music", "a", "a">>
    /\ last.root = Some(<<"", "music">>)
    /\ last.out = Some(<<"a", "a">>)

====
